---- MODULE Spec2Model ----
(***************************************************************************)
(* Verification model of the balance-app ingestion core.                   *)
(*                                                                         *)
(* Two consumer generations live in the repository and both are modelled:  *)
(*   - balance-service: worker pool -> bounded channel -> ProcessBatches   *)
(*     -> handleBatch -> gorm repositories (MySQL) -> sync.Map of amounts, *)
(*     repaired by runSync.                   (specifications Spec,        *)
(*     SpecRepo)                                                           *)
(*   - balance-consumer: per-message handleMessage -> SaveBalanceUpdate    *)
(*     (pgx/PostgreSQL) -> CacheSynchronizer.   (specification             *)
(*     SpecConsumer)                                                       *)
(***************************************************************************)
EXTENDS Integers, Sequences, FiniteSets, TLC

(***************************************************************************)
(* Bounds of the model.                                                    *)
(***************************************************************************)
MaxUser == 1
MaxVersion == 2
MaxAmount == 2
MaxEventID == 1
MaxDeliveries == 3
MaxBatchSize == 2
MaxFailures == 1
MaxCallRows == 2

\* payload.EventID != "" : the empty event id is modelled as 0, the
\* non-empty ones as 1..MaxEventID.
EmptyEventID == 0
\* payload.UserID == 0 : the zero value of a missing user_id.
ZeroUserID == 0

Users == 1..MaxUser
Versions == 1..MaxVersion
Amounts == 1..MaxAmount
EventIDs == EmptyEventID..MaxEventID

Max2(a, b) == IF a >= b THEN a ELSE b

SetMax(S) == CHOOSE x \in S : \A y \in S : y <= x

Range(s) == {s[i] : i \in 1..Len(s)}

\* model.Balance: the columns the core reads and writes.
Balance == [user : Users, amount : 0..MaxAmount, version : 0..MaxVersion]

\* model.BalanceEvent: one row of the event log.
BalanceEvent == [user : Users, amount : 0..MaxAmount,
                 version : 0..MaxVersion, eventID : EventIDs]

\* processor.BalanceMessage after json.Unmarshal; ok = FALSE stands for a
\* body that does not decode.
BalanceMessage == [ok : BOOLEAN, UserID : ZeroUserID..MaxUser,
                   NewAmount : 0..MaxAmount, Amount : 0..MaxAmount,
                   Version : 0..MaxVersion, EventID : EventIDs]

GetAmount(m) == IF m.NewAmount # 0 THEN m.NewAmount ELSE m.Amount

(***************************************************************************)
(* BalanceRepository (gorm, MySQL): the balances table is a sequence of    *)
(* rows in insertion order with a unique index on user.                    *)
(***************************************************************************)
HasRow(tbl, u) == \E i \in 1..Len(tbl) : tbl[i].user = u

RowOf(tbl, u) == tbl[CHOOSE i \in 1..Len(tbl) : tbl[i].user = u]

\* ON DUPLICATE KEY UPDATE with the version written unguarded.
UpsertRowTakeIncomingVersion(tbl, b) ==
    IF HasRow(tbl, b.user)
    THEN [i \in 1..Len(tbl) |->
            IF tbl[i].user = b.user
            THEN [user |-> b.user,
                  amount |-> IF tbl[i].version <= b.version
                             THEN b.amount ELSE tbl[i].amount,
                  version |-> b.version]
            ELSE tbl[i]]
    ELSE Append(tbl, b)

\* INSERT ... ON DUPLICATE KEY UPDATE
\*   amount  = CASE WHEN balances.version <= VALUES(version)
\*                  THEN VALUES(amount) ELSE balances.amount END,
\*   version = GREATEST(balances.version, VALUES(version))
\* for one row of the statement.
UpsertRow(tbl, b) ==
    IF HasRow(tbl, b.user)
    THEN [i \in 1..Len(tbl) |->
            IF tbl[i].user = b.user
            THEN [user |-> b.user,
                  amount |-> IF tbl[i].version <= b.version
                             THEN b.amount ELSE tbl[i].amount,
                  version |-> Max2(tbl[i].version, b.version)]
            ELSE tbl[i]]
    ELSE Append(tbl, b)

RECURSIVE SaveBalancesBatch(_, _)
SaveBalancesBatch(tbl, bs) ==
    IF bs = <<>> THEN tbl
    ELSE SaveBalancesBatch(UpsertRow(tbl, Head(bs)), Tail(bs))

SaveBalance(tbl, b) == UpsertRow(tbl, b)

GetBalancesByUserIDs(tbl, ids) == SelectSeq(tbl, LAMBDA r : r.user \in ids)


(***************************************************************************)
(* EventRepository (gorm, MySQL): the balance_events table.  The model     *)
(* struct declares event_id with a plain (non-unique) index, so the        *)
(* ON DUPLICATE KEY UPDATE clause that OnConflict{DoNothing} produces has  *)
(* no unique key to fire on and every row of the statement is inserted.    *)
(***************************************************************************)
EventExists(evs, e) == \E i \in 1..Len(evs) : evs[i].eventID = e

\* A bulk insert that skips a row equal to one the log already holds.
SaveEventsBatchSkipsKnown(evs, rows) ==
    evs \o SelectSeq(rows, LAMBDA r : r \notin Range(evs))

\* db.Clauses(OnConflict{Columns: event_id, DoNothing}).Create(&events)
SaveEventsBatch(evs, rows) == evs \o rows

EventRows(evs, e) == Cardinality({i \in 1..Len(evs) : evs[i].eventID = e})

(***************************************************************************)
(* State.                                                                  *)
(***************************************************************************)
VARIABLES
    batchSize,      \* cfg.Batch.Size, fixed at start-up
    deliveries,     \* broker deliveries by delivery tag: payload, fate, the
                    \* Ack/Nack calls made on the delivery, redelivered flag
    consumed,       \* number of deliveries the workers have taken
    updates,        \* the bounded channel worker -> accumulator (tags)
    batch,          \* ProcessBatches' buffer (tags)
    balances,       \* table balances
    events,         \* table balance_events
    cache,          \* sync.Map user -> amount
    cacheVersion,   \* history: version of the row a cached amount was read from
    failures,       \* storage failures injected so far
    syncPc,         \* runSync: "idle", "fetch" or "store"
    syncOffset,     \* runSync: offset
    syncPage,       \* runSync: rows of the fetched page not yet stored
    syncLen,        \* runSync: len(balances) of the fetched page
    syncErrors,     \* runSync: errors
    applied,        \* history: updates that went through a successful upsert
    lastCall,       \* history: rows handed to the last repository call
    \* balance-consumer
    msgs,           \* broker deliveries: payload and the Ack/Nack calls made
    handled,        \* number of deliveries handleMessage has been called on
    balanceUpdates, \* table balance_updates
    csCache,        \* CacheSynchronizer.cache: user -> BalanceCache
    csPc,           \* syncCache: "idle", "loop" or "loaded"
    dbBalances,     \* syncCache: rows of dbBalances not yet merged
    csRow,          \* syncCache: the row of the current iteration
    csLoaded,       \* syncCache: what cs.cache.Load returned for it
    passState       \* history: "complete" once a synchronizer pass that
                    \* began after the last handled message has finished

\* consumer.Consumer (connection manager of balance-service) and main
VARIABLES
    conn,           \* c.conn / c.channel: "open", "closed" (closed by the
                    \* broker, fields still set) or "nil"
    monitorPc,      \* monitorConnection / reconnect: "watch", "teardown",
                    \* "attempt", "wait", "gaveUp" or "stopped"
    attempt,        \* reconnect: the loop variable attempt
    waits,          \* history: the delays reconnect has slept, in seconds
    ctxDone,        \* the context of main (signal.NotifyContext) is cancelled
    cctxDone,       \* c.ctx is cancelled (c.cancel() in Close)
    mainPc,         \* main: "new", "blocked", "wgWait", "returned",
                    \* "closeWait", "done" or "fatal"
    workersTop,     \* workers of main's Start(ctx) read an open stream
    workersOwn,     \* worker sets started by reconnect's Start(c.ctx) that
                    \* read an open stream
    orphans,        \* worker sets whose delivery stream has been closed
    restarts,       \* goroutines of reconnect that are about to call Start
    drops           \* unexpected connection closures so far

connVars == <<conn, monitorPc, attempt, waits, ctxDone, cctxDone, mainPc,
              workersTop, workersOwn, orphans, restarts, drops>>

\* The clock of the database server and the updated_at column of balances
VARIABLES
    now,            \* NOW() of the database server
    updatedAt       \* balances.updated_at by user_id

\* processor pool (StartProcessorPool / runWorker)
VARIABLES
    poolPc,         \* runWorker by worker id: "idle", "save", "read" or
                    \* "store", the next step of its handleBatch call
    poolBatch,      \* runWorker: localBatch of the flush under way
    poolRead,       \* handleBatch: updatedBalances, the rows read back
    poolStarted,    \* flushes started so far
    poolAcked       \* history: deliveries acked by the pool

\* ProcessBatches as a goroutine of main
VARIABLES
    accPc           \* ProcessBatches: "running" or "exited" (returned)

\* one pass of runSync
VARIABLES
    syncBatchSize,  \* cfg.Sync.BatchSize, the batchSize of runSync
    synced,         \* runSync: the rows stored by this pass, in order
                    \* (synced++ counts them)
    syncResult,     \* how the last pass ended: "completed" (empty or
                    \* short page), "aborted" (max errors), "none" while
                    \* a pass runs or before the first one
    syncFails       \* failed GetAllBalances calls so far

\* decoding of one wire message
VARIABLES
    decoded,        \* BalanceMessage as json.Unmarshal filled it
    normalized      \* amount and UpdatedAt of the model.BalanceEvent built
                    \* from it, with the time of the call

decodeVars == <<decoded, normalized>>

\* the producer (Laravel application)
VARIABLES
    prodBalances,   \* its balances table: user -> amount and version
    cmdPc,          \* UpdateBalancesCommand::handle by run: "idle",
                    \* "selected" ($balances read) or "done"
    cmdRead,        \* $balances of the run: user -> amount and version
    dispatched,     \* the events dispatched so far, in order
    jobs,           \* queued listener jobs by event: attempts made so far
                    \* and whether the job has ended
    published,      \* the messages on the balance_updates queue, in order
    uniqids         \* calls of uniqid() so far

producerVars == <<prodBalances, cmdPc, cmdRead, dispatched, jobs, published,
                  uniqids>>

lateVars == <<decodeVars, producerVars>>

syncRunVars == <<syncBatchSize, synced, syncResult, syncFails, lateVars>>

poolClockVars == <<now, updatedAt, poolPc, poolBatch, poolRead, poolStarted,
                   poolAcked, accPc>>

restVars == <<poolClockVars, syncRunVars>>

serviceVars == <<batchSize, deliveries, consumed, updates, batch, balances,
                 events, cache, cacheVersion, syncPc, syncOffset, syncPage,
                 syncLen, syncErrors, applied, lastCall>>

consumerVars == <<msgs, handled, balanceUpdates, csCache, csPc, dbBalances,
                  csRow, csLoaded, passState>>

vars == <<serviceVars, failures, consumerVars, connVars, restVars>>

pipelineVars == <<batchSize, deliveries, consumed, updates, batch, events,
                  cache, cacheVersion, failures, applied>>

syncVars == <<syncPc, syncOffset, syncPage, syncLen, syncErrors>>

\* runSync: maxErrors := 3
MaxErrors == 3
\* cfg.Sync.BatchSize, the page size of runSync
SyncBatchSize == 1

\* make(chan processor.IncomingUpdate, cfg.Batch.Size*2)
UpdatesCap == batchSize * 2

\* Messages the producer puts on the queue: it writes "new_amount" and
\* leaves the alias "amount" absent.
Malformed == [ok |-> FALSE, UserID |-> ZeroUserID, NewAmount |-> 0,
              Amount |-> 0, Version |-> 0, EventID |-> EmptyEventID]

\* A decodable message without user_id; the worker looks at no other field
\* of it, so one representative is published.
MissingUser == [ok |-> TRUE, UserID |-> ZeroUserID, NewAmount |-> 0,
                Amount |-> 0, Version |-> 0, EventID |-> EmptyEventID]

WireMessages ==
    {Malformed, MissingUser} \cup
    [ok : {TRUE}, UserID : Users, NewAmount : Amounts,
     Amount : {0}, Version : Versions, EventID : EventIDs]

Payload(tag) == deliveries[tag].payload

Disp(tag) == deliveries[tag].disp

Tags == 1..Len(deliveries)

\* amqp091.Delivery.Ack / Nack: the call is recorded on the delivery.
RECURSIVE Dispose(_, _, _)
Dispose(ds, tags, what) ==
    IF tags = <<>> THEN ds
    ELSE Dispose([ds EXCEPT ![Head(tags)].disp = Append(@, what)],
                 Tail(tags), what)

InitPipeline ==
    /\ batchSize \in 1..MaxBatchSize
    /\ deliveries = <<>>
    /\ consumed = 0
    /\ updates = <<>>
    /\ batch = <<>>
    /\ balances = <<>>
    /\ events = <<>>
    /\ cache = <<>>
    /\ cacheVersion = <<>>
    /\ failures = 0
    /\ applied = {}
    /\ lastCall = <<>>

InitSync ==
    /\ syncPc = "idle"
    /\ syncOffset = 0
    /\ syncPage = <<>>
    /\ syncLen = 0
    /\ syncErrors = 0


(***************************************************************************)
(* Broker.                                                                 *)
(***************************************************************************)
NewDelivery(m) == [payload |-> m, fate |-> "ready", disp |-> <<>>,
                   redelivered |-> FALSE]

\* The producer publishes a message; the broker delivers it.
Publish ==
    /\ Len(deliveries) < MaxDeliveries
    /\ \E m \in WireMessages :
          deliveries' = Append(deliveries, NewDelivery(m))
    /\ UNCHANGED <<batchSize, consumed, updates, batch, balances, events,
                   cache, cacheVersion, failures, applied, lastCall>>
    /\ UNCHANGED syncVars
    /\ UNCHANGED <<consumerVars, connVars, restVars>>

\* A delivery whose first disposition is Nack(requeue=true) goes back to
\* the queue and is delivered again under a new tag.
Redeliver ==
    /\ Len(deliveries) < MaxDeliveries
    /\ \E t \in Tags :
          /\ Disp(t) # <<>>
          /\ Head(Disp(t)) = "requeue"
          /\ ~deliveries[t].redelivered
          /\ deliveries' = Append([deliveries EXCEPT ![t].redelivered = TRUE],
                                  NewDelivery(Payload(t)))
    /\ UNCHANGED <<batchSize, consumed, updates, batch, balances, events,
                   cache, cacheVersion, failures, applied, lastCall>>
    /\ UNCHANGED syncVars
    /\ UNCHANGED <<consumerVars, connVars, restVars>>

(***************************************************************************)
(* Consumer.worker / Consumer.processMessage.                              *)
(***************************************************************************)
\* Timeout branch that rejects without requeue.
ProcessMessageTimeoutDrops(t) ==
    /\ Len(updates) = UpdatesCap
    /\ deliveries' = [deliveries EXCEPT ![t].fate = "timeout",
                                        ![t].disp = Append(@, "drop")]
    /\ UNCHANGED updates

\* case <-ctx.Done(): the send did not happen within consumerTimeout
\* because the channel stayed full; Nack(false, true).
ProcessMessageTimeout(t) ==
    /\ Len(updates) = UpdatesCap
    /\ deliveries' = [deliveries EXCEPT ![t].fate = "timeout",
                                        ![t].disp = Append(@, "requeue")]
    /\ UNCHANGED updates

\* Rejection that asks for redelivery.
ProcessMessageRejectRequeues(t) ==
    /\ \/ ~Payload(t).ok
       \/ Payload(t).UserID = ZeroUserID
    /\ deliveries' = [deliveries EXCEPT ![t].fate = "rejected",
                                        ![t].disp = Append(@, "requeue")]
    /\ UNCHANGED updates

\* json.Unmarshal fails or payload.UserID == 0: Nack(false, false).
ProcessMessageReject(t) ==
    /\ \/ ~Payload(t).ok
       \/ Payload(t).UserID = ZeroUserID
    /\ deliveries' = [deliveries EXCEPT ![t].fate = "rejected",
                                        ![t].disp = Append(@, "drop")]
    /\ UNCHANGED updates

\* case c.updates <- IncomingUpdate{...}: the channel has room.
ProcessMessageSend(t) ==
    /\ Payload(t).ok
    /\ Payload(t).UserID # ZeroUserID
    /\ Len(updates) < UpdatesCap
    /\ updates' = Append(updates, t)
    /\ deliveries' = [deliveries EXCEPT ![t].fate = "sent"]

processMessage ==
    /\ consumed < Len(deliveries)
    /\ consumed' = consumed + 1
    /\ LET t == consumed + 1 IN
          \/ ProcessMessageReject(t)
          \/ ProcessMessageSend(t)
          \/ /\ Payload(t).ok
             /\ Payload(t).UserID # ZeroUserID
             /\ ProcessMessageTimeout(t)
    /\ UNCHANGED <<batchSize, batch, balances, events, cache, cacheVersion,
                   failures, applied, lastCall>>
    /\ UNCHANGED syncVars
    /\ UNCHANGED <<consumerVars, connVars, restVars>>


(***************************************************************************)
(* processor.handleBatch.                                                  *)
(***************************************************************************)
\* The local state of the scan loop: deduped (user -> tag), events,
\* seenEventIDs, toAck, and the deliveries nacked as invalid.
ScanInit == [deduped |-> <<>>, events |-> <<>>, seen |-> {},
             toAck |-> <<>>, invalid |-> <<>>]

EventOf(p) == [user |-> p.UserID, amount |-> GetAmount(p),
               version |-> p.Version, eventID |-> p.EventID]

\* Per-entity dedup that lets the last arrival win.
KeepHighestLastWins(deduped, t) ==
    (Payload(t).UserID :> t) @@ deduped

\* existing, ok := deduped[payload.UserID]
\* if !ok || payload.Version > existing.Payload.Version { deduped[...] = upd }
KeepHighest(deduped, t) ==
    IF \/ Payload(t).UserID \notin DOMAIN deduped
       \/ Payload(t).Version > Payload(deduped[Payload(t).UserID]).Version
    THEN (Payload(t).UserID :> t) @@ deduped
    ELSE deduped

\* Scan step without the check of seenEventIDs.
ScanItemNoSeen(st, t, evs, existsErr) ==
    LET p == Payload(t) IN
    IF p.UserID = ZeroUserID
    THEN [st EXCEPT !.invalid = Append(@, t)]
    ELSE IF /\ p.EventID # EmptyEventID
            /\ ~existsErr
            /\ EventExists(evs, p.EventID)
         THEN [st EXCEPT !.toAck = Append(@, t)]
         ELSE [st EXCEPT !.deduped = KeepHighest(@, t),
                         !.events = Append(@, EventOf(p))]

\* One iteration of "for _, upd := range updates"; existsErr says whether
\* eventRepo.EventExists returns an error for this item.
ScanItem(st, t, evs, existsErr) ==
    LET p == Payload(t) IN
    IF p.UserID = ZeroUserID
    THEN [st EXCEPT !.invalid = Append(@, t)]
    ELSE IF p.EventID # EmptyEventID /\ p.EventID \in st.seen
    THEN [st EXCEPT !.toAck = Append(@, t)]
    ELSE LET st1 == IF p.EventID # EmptyEventID
                    THEN [st EXCEPT !.seen = @ \cup {p.EventID}]
                    ELSE st
         IN IF /\ p.EventID # EmptyEventID
               /\ ~existsErr
               /\ EventExists(evs, p.EventID)
            THEN [st1 EXCEPT !.toAck = Append(@, t)]
            ELSE [st1 EXCEPT !.deduped = KeepHighest(@, t),
                             !.events = Append(@, EventOf(p))]

RECURSIVE Scan(_, _, _, _, _)
Scan(st, local, i, evs, errs) ==
    IF i > Len(local) THEN st
    ELSE Scan(ScanItem(st, local[i], evs, i \in errs), local, i + 1, evs, errs)

\* The items of the batch for which EventExists is called: valid, with a
\* non-empty event id not seen earlier in the batch.
ExistsCalled(local) ==
    {i \in 1..Len(local) :
        /\ Payload(local[i]).UserID # ZeroUserID
        /\ Payload(local[i]).EventID # EmptyEventID
        /\ \A j \in 1..(i - 1) :
              \/ Payload(local[j]).UserID = ZeroUserID
              \/ Payload(local[j]).EventID # Payload(local[i]).EventID}

\* "for _, upd := range deduped": Go iterates a map in an unspecified order.
MapOrders(S) == {o \in [1..Cardinality(S) -> S] : Range(o) = S}

BalanceOf(p) == [user |-> p.UserID, amount |-> GetAmount(p),
                 version |-> p.Version]

\* A refresh that fills only the entries the cache does not hold yet.
CacheStoreAllKeepsExisting(c, rows) ==
    [u \in DOMAIN c \cup {r.user : r \in Range(rows)} |->
        IF u \in DOMAIN c
        THEN c[u]
        ELSE (CHOOSE r \in Range(rows) : r.user = u).amount]

\* cache.Store(b.UserID, b.Amount) for every row read back.
CacheStoreAll(c, rows) ==
    [u \in DOMAIN c \cup {r.user : r \in Range(rows)} |->
        IF \E r \in Range(rows) : r.user = u
        THEN (CHOOSE r \in Range(rows) : r.user = u).amount
        ELSE c[u]]

CacheVersionAll(c, rows) ==
    [u \in DOMAIN c \cup {r.user : r \in Range(rows)} |->
        IF \E r \in Range(rows) : r.user = u
        THEN (CHOOSE r \in Range(rows) : r.user = u).version
        ELSE c[u]]

BoolCost(b) == IF b THEN 1 ELSE 0

(***************************************************************************)
(* ProcessBatches.flush on a non-empty buffer: handleBatch, then Nack of   *)
(* every delivery of the batch on error, Ack of every one otherwise.       *)
(* errs, evFail, balFail and getFail choose which repository calls fail.   *)
(***************************************************************************)
flush(local) ==
    \E errs \in SUBSET ExistsCalled(local) :
    \E evFail \in BOOLEAN, balFail \in BOOLEAN, getFail \in BOOLEAN :
      LET st == Scan(ScanInit, local, 1, events, errs)
          users == DOMAIN st.deduped
          cost == Cardinality(errs) + BoolCost(evFail) + BoolCost(balFail)
                    + BoolCost(getFail)
          early == Dispose(Dispose(deliveries, st.invalid, "drop"),
                           st.toAck, "ack")
      IN /\ failures + cost <= MaxFailures
         /\ evFail => st.events # <<>>
         /\ balFail => ~evFail /\ users # {}
         /\ getFail => ~evFail /\ ~balFail /\ users # {}
         /\ failures' = failures + cost
         /\ IF evFail
            THEN /\ deliveries' = Dispose(early, local, "requeue")
                 /\ UNCHANGED <<events, balances, cache, cacheVersion, applied>>
            ELSE IF balFail
            THEN /\ events' = SaveEventsBatch(events, st.events)
                 /\ deliveries' = Dispose(early, local, "requeue")
                 /\ UNCHANGED <<balances, cache, cacheVersion, applied>>
            ELSE /\ events' = SaveEventsBatch(events, st.events)
                 /\ \E order \in MapOrders(users) :
                       balances' = SaveBalancesBatch(balances,
                          [i \in 1..Len(order) |->
                              BalanceOf(Payload(st.deduped[order[i]]))])
                 /\ IF getFail \/ users = {}
                    THEN UNCHANGED <<cache, cacheVersion>>
                    ELSE LET rows == GetBalancesByUserIDs(balances', users)
                         IN /\ cache' = CacheStoreAll(cache, rows)
                            /\ cacheVersion' = CacheVersionAll(cacheVersion, rows)
                 /\ applied' = IF users = {} THEN applied
                               ELSE applied \cup
                                    {[user |-> e.user, version |-> e.version,
                                      amount |-> e.amount] : e \in Range(st.events)}
                 /\ deliveries' = Dispose(early, local, "ack")

\* A receive that flushes only when the buffer has grown past batchSize.
ReceiveFlushesLate ==
    /\ updates # <<>>
    /\ updates' = Tail(updates)
    /\ LET b == Append(batch, Head(updates)) IN
          IF Len(b) > batchSize
          THEN /\ batch' = <<>>
               /\ flush(b)
          ELSE /\ batch' = b
               /\ UNCHANGED <<deliveries, events, balances, cache,
                              cacheVersion, failures, applied>>
    /\ UNCHANGED <<batchSize, consumed, lastCall>>
    /\ UNCHANGED syncVars
    /\ UNCHANGED <<consumerVars, connVars, restVars>>

\* case upd, ok := <-updates: append, flush when len(batch) >= batchSize.
Receive ==
    /\ updates # <<>>
    /\ updates' = Tail(updates)
    /\ LET b == Append(batch, Head(updates)) IN
          IF Len(b) >= batchSize
          THEN /\ batch' = <<>>
               /\ flush(b)
          ELSE /\ batch' = b
               /\ UNCHANGED <<deliveries, events, balances, cache,
                              cacheVersion, failures, applied>>
    /\ UNCHANGED <<batchSize, consumed, lastCall>>
    /\ UNCHANGED syncVars
    /\ UNCHANGED <<consumerVars, connVars, restVars>>

\* case <-ticker.C: flush.
Tick ==
    /\ batch # <<>>
    /\ batch' = <<>>
    /\ flush(batch)
    /\ UNCHANGED <<batchSize, consumed, updates, lastCall>>
    /\ UNCHANGED syncVars
    /\ UNCHANGED <<consumerVars, connVars, restVars>>


(***************************************************************************)
(* sync.runSync (balance-service): one pass pages through the balances     *)
(* table and stores every fetched amount into the cache.                   *)
(***************************************************************************)
\* SELECT user_id, amount, version ... LIMIT limit OFFSET offset
GetAllBalances(tbl, limit, offset) ==
    SubSeq(tbl, offset + 1,
           IF offset + limit <= Len(tbl) THEN offset + limit ELSE Len(tbl))

SyncIdle ==
    /\ syncPc' = "idle"
    /\ syncOffset' = 0
    /\ syncPage' = <<>>
    /\ syncLen' = 0
    /\ syncErrors' = 0

\* CountBalances returned total > 0: enter the page loop.
SyncStart ==
    /\ syncPc = "idle"
    /\ Len(balances) > 0
    /\ syncPc' = "fetch"
    /\ syncOffset' = 0
    /\ syncErrors' = 0
    /\ synced' = <<>>
    /\ syncResult' = "none"
    /\ UNCHANGED <<syncPage, syncLen>>
    /\ UNCHANGED <<balances, lastCall>>
    /\ UNCHANGED pipelineVars
    /\ UNCHANGED <<consumerVars, connVars, poolClockVars, lateVars, syncBatchSize,
                   syncFails>>

\* balanceRepo.GetAllBalances(ctx, batchSize, offset) succeeds.
SyncFetch ==
    /\ syncPc = "fetch"
    /\ LET page == GetAllBalances(balances, syncBatchSize, syncOffset) IN
          IF page = <<>>
          THEN /\ SyncIdle
               /\ syncResult' = "completed"
               /\ UNCHANGED synced
          ELSE /\ syncPc' = "store"
               /\ syncPage' = page
               /\ syncLen' = Len(page)
               /\ UNCHANGED <<syncOffset, syncErrors, synced, syncResult>>
    /\ UNCHANGED <<balances, lastCall>>
    /\ UNCHANGED pipelineVars
    /\ UNCHANGED <<consumerVars, connVars, poolClockVars, lateVars, syncBatchSize,
                   syncFails>>

\* A failed fetch that moves on to the next page instead of retrying.
FetchFailedSkipsPage ==
    /\ syncPc = "fetch"
    /\ IF syncErrors + 1 >= MaxErrors
       THEN /\ SyncIdle
            /\ syncResult' = "aborted"
            /\ UNCHANGED synced
       ELSE /\ syncErrors' = syncErrors + 1
            /\ syncOffset' = syncOffset + syncBatchSize
            /\ UNCHANGED <<syncPc, syncPage, syncLen, synced, syncResult>>
    /\ UNCHANGED <<batchSize, deliveries, consumed, updates, batch, balances,
                   events, cache, cacheVersion, applied, lastCall>>
    /\ UNCHANGED <<consumerVars, connVars, poolClockVars, lateVars, syncBatchSize>>

\* balanceRepo.GetAllBalances fails: errors++, stop at maxErrors, else
\* retry the same offset.
FetchFailed ==
    /\ syncPc = "fetch"
    /\ IF syncErrors + 1 >= MaxErrors
       THEN /\ SyncIdle
            /\ syncResult' = "aborted"
            /\ UNCHANGED synced
       ELSE /\ syncErrors' = syncErrors + 1
            /\ UNCHANGED <<syncPc, syncOffset, syncPage, syncLen, synced,
                           syncResult>>
    /\ UNCHANGED <<batchSize, deliveries, consumed, updates, batch, balances,
                   events, cache, cacheVersion, applied, lastCall>>
    /\ UNCHANGED <<consumerVars, connVars, poolClockVars, lateVars, syncBatchSize>>

SyncFetchFail ==
    /\ failures < MaxFailures
    /\ failures' = failures + 1
    /\ FetchFailed
    /\ UNCHANGED syncFails

\* cache.Store(b.UserID, b.Amount) for the next row of the page; after the
\* last row: offset += len(balances), errors = 0, and the loop ends when
\* the page was short.
SyncStore ==
    /\ syncPc = "store"
    /\ LET b == Head(syncPage) IN
          /\ cache' = (b.user :> b.amount) @@ cache
          /\ cacheVersion' = (b.user :> b.version) @@ cacheVersion
    /\ synced' = Append(synced, Head(syncPage))
    /\ IF Tail(syncPage) # <<>>
       THEN /\ syncPage' = Tail(syncPage)
            /\ UNCHANGED <<syncPc, syncOffset, syncLen, syncErrors,
                           syncResult>>
       ELSE IF syncLen < syncBatchSize
       THEN /\ SyncIdle
            /\ syncResult' = "completed"
       ELSE /\ syncPc' = "fetch"
            /\ syncOffset' = syncOffset + syncLen
            /\ syncPage' = <<>>
            /\ syncLen' = 0
            /\ syncErrors' = 0
            /\ UNCHANGED syncResult
    /\ UNCHANGED <<batchSize, deliveries, consumed, updates, batch, balances,
                   events, failures, applied, lastCall>>
    /\ UNCHANGED <<consumerVars, connVars, poolClockVars, lateVars, syncBatchSize,
                   syncFails>>

(***************************************************************************)
(* Specification of balance-service.                                       *)
(***************************************************************************)
InitConsumer ==
    /\ msgs = <<>>
    /\ handled = 0
    /\ balanceUpdates = {}
    /\ csCache = <<>>
    /\ csPc = "idle"
    /\ dbBalances = {}
    /\ csRow = {}
    /\ csLoaded = {}
    /\ passState = "none"

\* consumer.New has connected (connect started the monitor); main is about
\* to call Start.
InitConn ==
    /\ conn = "open"
    /\ monitorPc = "watch"
    /\ attempt = 1
    /\ waits = <<>>
    /\ ctxDone = FALSE
    /\ cctxDone = FALSE
    /\ mainPc = "new"
    /\ workersTop = FALSE
    /\ workersOwn = 0
    /\ orphans = 0
    /\ restarts = 0
    /\ drops = 0

\* rabbitCfg.Workers, the number of runWorker goroutines
MaxPoolWorkers == 2

PoolWorkers == 1..MaxPoolWorkers

\* concurrent runs of UpdateBalancesCommand
MaxCommandRuns == 2

CommandRuns == 1..MaxCommandRuns

\* No message has been decoded; the producer's table holds every user at
\* version 0, no run of the command has started, nothing is dispatched.
InitLate ==
    /\ decoded = {}
    /\ normalized = {}
    /\ prodBalances = [u \in Users |-> [amount |-> 1, version |-> 0]]
    /\ cmdPc = [r \in CommandRuns |-> "idle"]
    /\ cmdRead = [r \in CommandRuns |-> <<>>]
    /\ dispatched = <<>>
    /\ jobs = <<>>
    /\ published = <<>>
    /\ uniqids = 0

\* The clock starts at 0 and the balances table is empty.
InitRest ==
    /\ now = 0
    /\ updatedAt = <<>>
    /\ poolPc = [w \in PoolWorkers |-> "idle"]
    /\ poolBatch = [w \in PoolWorkers |-> <<>>]
    /\ poolRead = [w \in PoolWorkers |-> <<>>]
    /\ poolStarted = 0
    /\ poolAcked = 0
    /\ accPc = "running"
    /\ InitLate

\* runSync has not run; the page size is the configured one.
InitSyncRun ==
    /\ syncBatchSize = SyncBatchSize
    /\ synced = <<>>
    /\ syncResult = "none"
    /\ syncFails = 0

Init ==
    /\ InitPipeline /\ InitSync /\ InitConsumer /\ InitConn /\ InitRest
    /\ InitSyncRun

\* The write path: broker, workers, accumulator, repositories.
Next ==
    \/ Publish
    \/ Redeliver
    \/ processMessage
    \/ Receive
    \/ Tick

Spec == Init /\ [][Next]_vars

\* The write path together with the cache synchronizer.
NextSync ==
    \/ Publish
    \/ Redeliver
    \/ processMessage
    \/ Receive
    \/ Tick
    \/ SyncStart
    \/ SyncFetch
    \/ SyncFetchFail
    \/ SyncStore

SpecSync == Init /\ [][NextSync]_vars


(***************************************************************************)
(* Specification of the repository alone: any sequence of SaveBalance and  *)
(* SaveBalancesBatch calls, with any rows in any grouping.                 *)
(***************************************************************************)
CallRows == [user : Users, amount : Amounts, version : 0..MaxVersion]

CallBatches ==
    UNION {[1..n -> CallRows] : n \in 1..MaxCallRows}

RepoSaveBalance ==
    /\ \E b \in CallRows :
          /\ balances' = SaveBalance(balances, b)
          /\ lastCall' = <<b>>
    /\ UNCHANGED pipelineVars
    /\ UNCHANGED syncVars
    /\ UNCHANGED <<consumerVars, connVars, restVars>>

RepoSaveBalancesBatch ==
    /\ \E bs \in CallBatches :
          /\ balances' = SaveBalancesBatch(balances, bs)
          /\ lastCall' = bs
    /\ UNCHANGED pipelineVars
    /\ UNCHANGED syncVars
    /\ UNCHANGED <<consumerVars, connVars, restVars>>

NextRepo ==
    \/ RepoSaveBalance
    \/ RepoSaveBalancesBatch

SpecRepo == Init /\ [][NextRepo]_vars

(***************************************************************************)
(* The repository with the updated_at column: every row of an upsert       *)
(* statement is written with "updated_at": NOW(), whether or not the       *)
(* version guard lets amount and version through.                          *)
(***************************************************************************)
MaxClock == 2

\* "updated_at": gorm.Expr("NOW()") for the rows of the statement bs run on
\* table tbl at time t; an inserted row gets the same time.
StampUpdatedAt(st, tbl, bs, t) ==
    [u \in DOMAIN st \cup {bs[i].user : i \in 1..Len(bs)} |->
        IF \E i \in 1..Len(bs) : bs[i].user = u THEN t ELSE st[u]]

ClockTick ==
    /\ now < MaxClock
    /\ now' = now + 1
    /\ UNCHANGED <<updatedAt, poolPc, poolBatch, poolRead, poolStarted,
                   poolAcked, accPc, syncRunVars>>
    /\ UNCHANGED <<serviceVars, failures, consumerVars, connVars>>

TimedSaveBalance ==
    /\ \E b \in CallRows :
          /\ balances' = SaveBalance(balances, b)
          /\ updatedAt' = StampUpdatedAt(updatedAt, balances, <<b>>, now)
          /\ lastCall' = <<b>>
    /\ UNCHANGED <<now, poolPc, poolBatch, poolRead, poolStarted, poolAcked,
                   accPc, syncRunVars>>
    /\ UNCHANGED pipelineVars
    /\ UNCHANGED syncVars
    /\ UNCHANGED <<consumerVars, connVars>>

TimedSaveBalancesBatch ==
    /\ \E bs \in CallBatches :
          /\ balances' = SaveBalancesBatch(balances, bs)
          /\ updatedAt' = StampUpdatedAt(updatedAt, balances, bs, now)
          /\ lastCall' = bs
    /\ UNCHANGED <<now, poolPc, poolBatch, poolRead, poolStarted, poolAcked,
                   accPc, syncRunVars>>
    /\ UNCHANGED pipelineVars
    /\ UNCHANGED syncVars
    /\ UNCHANGED <<consumerVars, connVars>>

NextRepoTimed ==
    \/ ClockTick
    \/ TimedSaveBalance
    \/ TimedSaveBalancesBatch

SpecRepoTimed == Init /\ [][NextRepoTimed]_vars

(***************************************************************************)
(* The processor pool: rabbitCfg.Workers goroutines run runWorker on one   *)
(* updates channel, one store and one cache. Batches hold one update       *)
(* (batchSize 1), so every receive starts a flush; the store calls         *)
(* succeed. handleBatch is three calls on shared state in a row:           *)
(* SaveBalancesBatch, GetBalancesByUserIDs, cache.Store.                   *)
(***************************************************************************)
MaxPoolFlushes == 3

\* The updates the pool receives: the valid ones.
PoolMessages == {m \in WireMessages : m.UserID # ZeroUserID}

timedVars == <<now, updatedAt, accPc, syncRunVars>>

\* case upd := <-updates, append, len(batch) >= batchSize: flush calls
\* handleBatch, which scans the batch and saves the events (only updates
\* with an event_id yield one).
PoolReceive(w) ==
    /\ poolPc[w] = "idle"
    /\ poolStarted < MaxPoolFlushes
    /\ \E m \in PoolMessages :
          /\ poolBatch' = [poolBatch EXCEPT ![w] = <<m>>]
          /\ events' = SaveEventsBatch(events,
                          IF m.EventID # EmptyEventID
                          THEN <<EventOf(m)>> ELSE <<>>)
    /\ poolStarted' = poolStarted + 1
    /\ poolPc' = [poolPc EXCEPT ![w] = "save"]
    /\ UNCHANGED <<batchSize, deliveries, consumed, updates, batch, balances,
                   cache, cacheVersion, failures, applied, lastCall>>
    /\ UNCHANGED <<poolRead, poolAcked, timedVars>>
    /\ UNCHANGED syncVars
    /\ UNCHANGED <<consumerVars, connVars>>

\* balanceRepo.SaveBalancesBatch(ctx, balances)
PoolSaveBalances(w) ==
    /\ poolPc[w] = "save"
    /\ balances' = SaveBalancesBatch(balances,
                      <<BalanceOf(poolBatch[w][1])>>)
    /\ poolPc' = [poolPc EXCEPT ![w] = "read"]
    /\ UNCHANGED pipelineVars
    /\ UNCHANGED lastCall
    /\ UNCHANGED <<poolBatch, poolRead, poolStarted, poolAcked, timedVars>>
    /\ UNCHANGED syncVars
    /\ UNCHANGED <<consumerVars, connVars>>

\* updatedBalances, err := balanceRepo.GetBalancesByUserIDs(ctx, userIDs)
PoolReadBack(w) ==
    /\ poolPc[w] = "read"
    /\ poolRead' = [poolRead EXCEPT ![w] =
                       GetBalancesByUserIDs(balances,
                                            {poolBatch[w][1].UserID})]
    /\ poolPc' = [poolPc EXCEPT ![w] = "store"]
    /\ UNCHANGED <<serviceVars, failures>>
    /\ UNCHANGED <<poolBatch, poolStarted, poolAcked, timedVars>>
    /\ UNCHANGED <<consumerVars, connVars>>

\* cache.Store(b.UserID, b.Amount) for the rows read back; handleBatch
\* returns nil and flush acks the batch.
PoolStore(w) ==
    /\ poolPc[w] = "store"
    /\ cache' = CacheStoreAll(cache, poolRead[w])
    /\ poolAcked' = poolAcked + 1
    /\ poolBatch' = [poolBatch EXCEPT ![w] = <<>>]
    /\ poolRead' = [poolRead EXCEPT ![w] = <<>>]
    /\ poolPc' = [poolPc EXCEPT ![w] = "idle"]
    /\ UNCHANGED <<batchSize, deliveries, consumed, updates, batch, balances,
                   events, cacheVersion, failures, applied, lastCall>>
    /\ UNCHANGED <<poolStarted, timedVars>>
    /\ UNCHANGED syncVars
    /\ UNCHANGED <<consumerVars, connVars>>

NextPool ==
    \E w \in PoolWorkers :
       \/ PoolReceive(w)
       \/ PoolSaveBalances(w)
       \/ PoolReadBack(w)
       \/ PoolStore(w)

\* main has started the pool; batches of one item.
InitPool == Init /\ batchSize = 1

SpecPool == InitPool /\ [][NextPool]_vars

(***************************************************************************)
(* Specification of the event repository alone: any sequence of            *)
(* SaveEventsBatch calls.                                                  *)
(***************************************************************************)
MaxLogRows == 3

EventCallRows == [user : Users, amount : Amounts, version : Versions,
                  eventID : EventIDs]

EventCallBatches ==
    UNION {[1..n -> EventCallRows] : n \in 1..MaxCallRows}

RepoSaveEventsBatch ==
    /\ \E rows \in EventCallBatches :
          /\ Len(events) + Len(rows) <= MaxLogRows
          /\ events' = SaveEventsBatch(events, rows)
          /\ lastCall' = rows
    /\ UNCHANGED <<batchSize, deliveries, consumed, updates, batch, balances,
                   cache, cacheVersion, failures, applied>>
    /\ UNCHANGED syncVars
    /\ UNCHANGED <<consumerVars, connVars, restVars>>

NextEventRepo == RepoSaveEventsBatch

SpecEventRepo == Init /\ [][NextEventRepo]_vars

(***************************************************************************)
(* balance-consumer: per-message consumer, PostgreSQL table                *)
(* balance_updates with UNIQUE(event_id) and UNIQUE(user_id, version), and *)
(* the CacheSynchronizer whose cache entries carry a version.              *)
(***************************************************************************)
MaxTimestamp == 2

\* BalanceUpdateMessage after json.Unmarshal.  Timestamp 0 stands for a
\* text time.Parse(time.RFC3339, ...) rejects, k > 0 for the instant k.
ConsumerMessage ==
    [ok : BOOLEAN, UserID : Users, NewAmount : Amounts,
     Version : 0..MaxVersion, Timestamp : 0..MaxTimestamp,
     EventID : 1..MaxDeliveries]

Processable(m) == m.ok /\ m.Timestamp # 0

\* The messages published: the decodable ones with a parseable timestamp,
\* and one representative each of an undecodable body and of an
\* unparseable timestamp (handleMessage reads no other field of those).
ConsumerMessages ==
    {m \in ConsumerMessage :
        \/ Processable(m)
        \/ /\ m.UserID = 1 /\ m.NewAmount = 1 /\ m.Version = 0
           /\ m.EventID = 1
           /\ (m.ok <=> m.Timestamp = 0)
           /\ m.Timestamp \in {0, 1}}

\* The producer gives every balance change its own event_id: a published
\* message either repeats an earlier one or carries an unused event_id (the
\* next one, event ids being opaque).
UsedEventIDs(ms) ==
    {ms[i].payload.EventID :
        i \in {j \in 1..Len(ms) : Processable(ms[j].payload)}}

FreshOrReplay(ms, m) ==
    Processable(m) =>
       IF m.EventID \in UsedEventIDs(ms)
       THEN \E i \in 1..Len(ms) : ms[i].payload = m
       ELSE m.EventID = Cardinality(UsedEventIDs(ms)) + 1

\* DB.SaveBalanceUpdate: skip when the event_id is present; otherwise
\* insert, and on a (user_id, version) conflict take amount, timestamp and
\* event_id of the new row only when its timestamp is later.
SaveBalanceUpdate(tbl, m) ==
    IF \E r \in tbl : r.eventID = m.EventID
    THEN tbl
    ELSE IF \E r \in tbl : r.user = m.UserID /\ r.version = m.Version
    THEN {IF r.user = m.UserID /\ r.version = m.Version
             /\ r.timestamp < m.Timestamp
          THEN [r EXCEPT !.amount = m.NewAmount,
                         !.timestamp = m.Timestamp,
                         !.eventID = m.EventID]
          ELSE r : r \in tbl}
    ELSE tbl \cup {[user |-> m.UserID, amount |-> m.NewAmount,
                    version |-> m.Version, eventID |-> m.EventID,
                    timestamp |-> m.Timestamp]}

\* ROW_NUMBER() OVER (PARTITION BY user_id ORDER BY version DESC) ... rn = 1
LatestRows(tbl) ==
    {r \in tbl : \A q \in tbl : q.user = r.user => q.version <= r.version}

\* GetLatestBalances(ctx, limit): LIMIT without ORDER BY returns any
\* `limit` of the latest rows.
GetLatestBalances(tbl, limit) ==
    {S \in SUBSET LatestRows(tbl) :
        Cardinality(S) = IF Cardinality(LatestRows(tbl)) <= limit
                         THEN Cardinality(LatestRows(tbl)) ELSE limit}

\* CacheSynchronizer.UpdateCache
UpdateCache(c, u, a, v) == (u :> [amount |-> a, version |-> v]) @@ c

ConsumerPublish ==
    /\ Len(msgs) < MaxDeliveries
    /\ \E m \in ConsumerMessages :
          /\ FreshOrReplay(msgs, m)
          /\ msgs' = Append(msgs, [payload |-> m, disp |-> <<>>,
                                   redelivered |-> FALSE])
    /\ UNCHANGED <<handled, balanceUpdates, csCache, csPc, dbBalances,
                   csRow, csLoaded, passState>>
    /\ UNCHANGED <<serviceVars, failures, connVars, restVars>>

ConsumerRedeliver ==
    /\ Len(msgs) < MaxDeliveries
    /\ \E t \in 1..Len(msgs) :
          /\ msgs[t].disp # <<>>
          /\ Head(msgs[t].disp) = "requeue"
          /\ ~msgs[t].redelivered
          /\ msgs' = Append([msgs EXCEPT ![t].redelivered = TRUE],
                            [payload |-> msgs[t].payload, disp |-> <<>>,
                             redelivered |-> FALSE])
    /\ UNCHANGED <<handled, balanceUpdates, csCache, csPc, dbBalances,
                   csRow, csLoaded, passState>>
    /\ UNCHANGED <<serviceVars, failures, connVars, restVars>>

\* Consumer.handleMessage for the next delivery (prefetch 1, one loop).
\* old: time.Since(timestamp) > 5*time.Minute; fail: SaveBalanceUpdate
\* returns an error.
handleMessage ==
    /\ handled < Len(msgs)
    /\ handled' = handled + 1
    /\ LET t == handled + 1
           m == msgs[t].payload
       IN \E old \in BOOLEAN, fail \in BOOLEAN :
            /\ fail => failures < MaxFailures
            /\ IF ~m.ok \/ m.Timestamp = 0
               THEN /\ ~old /\ ~fail
                    /\ msgs' = [msgs EXCEPT ![t].disp = Append(@, "drop")]
                    /\ UNCHANGED <<balanceUpdates, csCache, failures, passState>>
               ELSE IF old
               THEN /\ ~fail
                    /\ msgs' = [msgs EXCEPT ![t].disp = Append(@, "ack")]
                    /\ UNCHANGED <<balanceUpdates, csCache, failures, passState>>
               ELSE IF fail
               THEN /\ failures' = failures + 1
                    /\ msgs' = [msgs EXCEPT ![t].disp = Append(@, "requeue")]
                    /\ UNCHANGED <<balanceUpdates, csCache, passState>>
               ELSE /\ balanceUpdates' = SaveBalanceUpdate(balanceUpdates, m)
                    /\ csCache' = UpdateCache(csCache, m.UserID, m.NewAmount,
                                              m.Version)
                    /\ msgs' = [msgs EXCEPT ![t].disp = Append(@, "ack")]
                    /\ passState' = "none"
                    /\ UNCHANGED failures
    /\ UNCHANGED <<csPc, dbBalances, csRow, csLoaded>>
    /\ UNCHANGED <<serviceVars, connVars, restVars>>

\* syncCache: cs.db.GetLatestBalances(ctx, cs.config.BatchSize) succeeds.
SyncCacheFetch ==
    /\ csPc = "idle"
    /\ balanceUpdates # {}
    /\ \E rows \in GetLatestBalances(balanceUpdates, SyncBatchSize) :
          /\ dbBalances' = rows
          /\ csPc' = "loop"
    /\ passState' = "running"
    /\ UNCHANGED <<msgs, handled, balanceUpdates, csCache, csRow, csLoaded>>
    /\ UNCHANGED <<serviceVars, failures, connVars, restVars>>

\* for userID, dbBalance := range dbBalances { cachedValue, exists :=
\* cs.cache.Load(userID) ... : the map is ranged over in any order.
SyncCacheLoad ==
    /\ csPc = "loop"
    /\ \E r \in dbBalances :
          /\ csRow' = {r}
          /\ csLoaded' = IF r.user \in DOMAIN csCache
                         THEN {csCache[r.user]} ELSE {}
    /\ csPc' = "loaded"
    /\ UNCHANGED <<msgs, handled, balanceUpdates, csCache, dbBalances,
                   passState>>
    /\ UNCHANGED <<serviceVars, failures, connVars, restVars>>

\* The rest of the iteration: UpdateCache when the entry was absent or the
\* database version is greater than the loaded one, nothing otherwise.
SyncCacheMerge ==
    /\ csPc = "loaded"
    /\ LET r == CHOOSE x \in csRow : TRUE IN
          /\ csCache' = IF \/ csLoaded = {}
                           \/ \E c \in csLoaded : r.version > c.version
                        THEN UpdateCache(csCache, r.user, r.amount, r.version)
                        ELSE csCache
          /\ dbBalances' = dbBalances \ {r}
          /\ csPc' = IF dbBalances \ {r} = {} THEN "idle" ELSE "loop"
          /\ passState' = IF dbBalances \ {r} = {} /\ passState = "running"
                          THEN "complete" ELSE passState
    /\ csRow' = {}
    /\ csLoaded' = {}
    /\ UNCHANGED <<msgs, handled, balanceUpdates>>
    /\ UNCHANGED <<serviceVars, failures, connVars, restVars>>

InitConsumerSpec == Init /\ batchSize = 1

NextConsumer ==
    \/ ConsumerPublish
    \/ ConsumerRedeliver
    \/ handleMessage
    \/ SyncCacheFetch
    \/ SyncCacheLoad
    \/ SyncCacheMerge

SpecConsumer == InitConsumerSpec /\ [][NextConsumer]_vars

(***************************************************************************)
(* consumer.Consumer of balance-service: connection monitor, reconnect,    *)
(* Start, worker, Close, and the part of main that drives them.            *)
(***************************************************************************)
\* const reconnectDelay = 5 * time.Second
reconnectDelay == 5
\* const maxReconnectAttempts = 10
maxReconnectAttempts == 10

\* Unexpected closures of the connection that the broker causes.
MaxDrops == 2

otherVars == <<serviceVars, failures, consumerVars, restVars>>

\* The process runs until main returns or log.Fatal exits.
Running == mainPc \notin {"done", "fatal"}

\* c.wg: the worker sets that have not called wg.Done.
WaitGroup == (IF workersTop THEN 1 ELSE 0) + workersOwn + orphans

\* The broker closes the connection: NotifyClose fires with an error and
\* the delivery streams of all consumers are closed.
ConnectionClosed ==
    /\ Running
    /\ conn = "open"
    /\ drops < MaxDrops
    /\ conn' = "closed"
    /\ drops' = drops + 1
    /\ orphans' = WaitGroup
    /\ workersTop' = FALSE
    /\ workersOwn' = 0
    /\ UNCHANGED <<monitorPc, attempt, waits, ctxDone, cctxDone, mainPc,
                   restarts>>
    /\ UNCHANGED otherVars

\* SIGINT / SIGTERM cancels the context of main.
Signal ==
    /\ Running
    /\ ~ctxDone
    /\ ctxDone' = TRUE
    /\ UNCHANGED <<conn, monitorPc, attempt, waits, cctxDone, mainPc,
                   workersTop, workersOwn, orphans, restarts, drops>>
    /\ UNCHANGED otherVars

\* monitorConnection: case err := <-notifyClose with err != nil.
MonitorNotified ==
    /\ Running
    /\ monitorPc = "watch"
    /\ conn = "closed"
    /\ monitorPc' = "teardown"
    /\ UNCHANGED <<conn, attempt, waits, ctxDone, cctxDone, mainPc,
                   workersTop, workersOwn, orphans, restarts, drops>>
    /\ UNCHANGED otherVars

\* monitorConnection: case <-c.ctx.Done(); reconnect: the same case while
\* it sleeps.
MonitorStopped ==
    /\ Running
    /\ monitorPc \in {"watch", "wait"}
    /\ cctxDone
    /\ monitorPc' = "stopped"
    /\ UNCHANGED <<conn, attempt, waits, ctxDone, cctxDone, mainPc,
                   workersTop, workersOwn, orphans, restarts, drops>>
    /\ UNCHANGED otherVars

\* reconnect: close and clear channel and connection, then enter the loop
\* with attempt := 1.
ReconnectTeardown ==
    /\ Running
    /\ monitorPc = "teardown"
    /\ conn' = "nil"
    /\ attempt' = 1
    /\ waits' = <<>>
    /\ monitorPc' = "attempt"
    /\ UNCHANGED <<ctxDone, cctxDone, mainPc, workersTop, workersOwn,
                   orphans, restarts, drops>>
    /\ UNCHANGED otherVars

\* The wait of an attempt that waits the same delay every time.
ReconnectDelayConstant(k) == reconnectDelay

\* delay := reconnectDelay * time.Duration(attempt)
ReconnectDelayOf(k) == reconnectDelay * k

\* reconnect: one c.connect() of the loop. On success connect has started
\* a new monitor and reconnect starts a goroutine that calls Start(c.ctx);
\* on failure reconnect computes the delay and sleeps.
ReconnectAttempt ==
    /\ Running
    /\ monitorPc = "attempt"
    /\ \E ok \in BOOLEAN :
          IF ok
          THEN /\ conn' = "open"
               /\ monitorPc' = "watch"
               /\ restarts' = restarts + 1
               /\ UNCHANGED waits
          ELSE /\ waits' = Append(waits, ReconnectDelayOf(attempt))
               /\ monitorPc' = "wait"
               /\ UNCHANGED <<conn, restarts>>
    /\ UNCHANGED <<attempt, ctxDone, cctxDone, mainPc, workersTop,
                   workersOwn, orphans, drops>>
    /\ UNCHANGED otherVars

\* reconnect: case <-time.After(delay), attempt++ and the loop condition;
\* after the last attempt "max reconnection attempts reached, giving up"
\* and return.
ReconnectWaitOver ==
    /\ Running
    /\ monitorPc = "wait"
    /\ attempt' = attempt + 1
    /\ monitorPc' = IF attempt + 1 <= maxReconnectAttempts
                    THEN "attempt" ELSE "gaveUp"
    /\ UNCHANGED <<conn, waits, ctxDone, cctxDone, mainPc, workersTop,
                   workersOwn, orphans, restarts, drops>>
    /\ UNCHANGED otherVars

\* The goroutine of reconnect runs c.Start(c.ctx): without an open channel
\* Start returns an error that is logged; otherwise it starts workers on
\* the new stream and blocks on c.ctx.
RestartStart ==
    /\ Running
    /\ restarts > 0
    /\ restarts' = restarts - 1
    /\ workersOwn' = IF conn = "open" THEN workersOwn + 1 ELSE workersOwn
    /\ UNCHANGED <<conn, monitorPc, attempt, waits, ctxDone, cctxDone,
                   mainPc, workersTop, orphans, drops>>
    /\ UNCHANGED otherVars

\* main: rmqConsumer.Start(ctx). Without an open channel Start returns an
\* error, which is fatal unless ctx is cancelled; otherwise Start starts
\* the workers and blocks on <-ctx.Done().
MainStart ==
    /\ mainPc = "new"
    /\ IF conn = "open"
       THEN /\ workersTop' = TRUE
            /\ mainPc' = "blocked"
       ELSE /\ mainPc' = IF ctxDone THEN "returned" ELSE "fatal"
            /\ UNCHANGED workersTop
    /\ UNCHANGED <<conn, monitorPc, attempt, waits, ctxDone, cctxDone,
                   workersOwn, orphans, restarts, drops>>
    /\ UNCHANGED otherVars

\* Start: <-ctx.Done() returns.
MainCtxDone ==
    /\ mainPc = "blocked"
    /\ ctxDone
    /\ mainPc' = "wgWait"
    /\ UNCHANGED <<conn, monitorPc, attempt, waits, ctxDone, cctxDone,
                   workersTop, workersOwn, orphans, restarts, drops>>
    /\ UNCHANGED otherVars

\* Start: c.wg.Wait() returns, Start returns nil.
MainWaitReturns ==
    /\ mainPc = "wgWait"
    /\ WaitGroup = 0
    /\ mainPc' = "returned"
    /\ UNCHANGED <<conn, monitorPc, attempt, waits, ctxDone, cctxDone,
                   workersTop, workersOwn, orphans, restarts, drops>>
    /\ UNCHANGED otherVars

\* main returns, the deferred rmqConsumer.Close() runs: c.cancel().
MainClose ==
    /\ mainPc = "returned"
    /\ cctxDone' = TRUE
    /\ mainPc' = "closeWait"
    /\ UNCHANGED <<conn, monitorPc, attempt, waits, ctxDone, workersTop,
                   workersOwn, orphans, restarts, drops>>
    /\ UNCHANGED otherVars

\* Close: c.wg.Wait() returns, channel and connection are closed.
MainCloseDone ==
    /\ mainPc = "closeWait"
    /\ WaitGroup = 0
    /\ conn' = "nil"
    /\ mainPc' = "done"
    /\ UNCHANGED <<monitorPc, attempt, waits, ctxDone, cctxDone, workersTop,
                   workersOwn, orphans, restarts, drops>>
    /\ UNCHANGED otherVars

\* worker: msg, ok := <-msgs with ok false ("message channel closed").
WorkerStreamClosed ==
    /\ Running
    /\ orphans > 0
    /\ orphans' = orphans - 1
    /\ UNCHANGED <<conn, monitorPc, attempt, waits, ctxDone, cctxDone,
                   mainPc, workersTop, workersOwn, restarts, drops>>
    /\ UNCHANGED otherVars

\* worker: case <-ctx.Done(), for the workers of Start(ctx) and for the
\* workers of Start(c.ctx).
WorkerCtxDone ==
    /\ Running
    /\ \/ /\ workersTop
          /\ ctxDone
          /\ workersTop' = FALSE
          /\ UNCHANGED workersOwn
       \/ /\ workersOwn > 0
          /\ cctxDone
          /\ workersOwn' = workersOwn - 1
          /\ UNCHANGED workersTop
    /\ UNCHANGED <<conn, monitorPc, attempt, waits, ctxDone, cctxDone,
                   mainPc, orphans, restarts, drops>>
    /\ UNCHANGED otherVars

\* The steps of the process itself.
ConnProgram ==
    \/ MonitorNotified
    \/ MonitorStopped
    \/ ReconnectTeardown
    \/ ReconnectAttempt
    \/ ReconnectWaitOver
    \/ RestartStart
    \/ MainStart
    \/ MainCtxDone
    \/ MainWaitReturns
    \/ MainClose
    \/ MainCloseDone
    \/ WorkerStreamClosed
    \/ WorkerCtxDone

NextConn ==
    \/ ConnectionClosed
    \/ Signal
    \/ ConnProgram

\* The process right after consumer.New, with batches of one item.
InitConnSpec == Init /\ batchSize = 1

SpecConn == InitConnSpec /\ [][NextConn]_vars

(***************************************************************************)
(* The write path on a connection that can drop. A delivery that has no     *)
(* disposition when the connection closes gets the mark "closed": the       *)
(* broker puts its message back on the queue, and every Ack or Nack that    *)
(* the process calls on it afterwards fails on the closed channel and is    *)
(* recorded behind the mark.                                                *)
(***************************************************************************)
\* Drops of the connection under the running write path.
MaxStreamDrops == 1

\* Failed connects in a row before the broker is reachable again.
MaxFailedAttempts == 1

\* The messages published while the connection drops: valid ones of one
\* amount, with and without event_id; an event_id names one event, the one
\* with the version of the same number.
DropMessages ==
    {m \in WireMessages :
        /\ m.UserID # ZeroUserID
        /\ m.NewAmount = 1
        /\ m.EventID # EmptyEventID => m.Version = m.EventID}

\* Workers are reading a delivery stream of an open connection.
Consuming == conn = "open" /\ (workersTop \/ workersOwn > 0)

\* The unsettled deliveries of the closed channel.
CloseChannel(ds) ==
    [t \in 1..Len(ds) |->
        IF ds[t].disp = <<>> THEN [ds[t] EXCEPT !.disp = <<"closed">>]
        ELSE ds[t]]

\* The broker closes the connection under the running pipeline: as
\* ConnectionClosed, and the deliveries the workers have not read are gone
\* with the stream.
StreamDropped ==
    /\ Running
    /\ conn = "open"
    /\ drops < MaxStreamDrops
    /\ conn' = "closed"
    /\ drops' = drops + 1
    /\ orphans' = WaitGroup
    /\ workersTop' = FALSE
    /\ workersOwn' = 0
    /\ deliveries' = CloseChannel(deliveries)
    /\ consumed' = Len(deliveries)
    /\ UNCHANGED <<monitorPc, attempt, waits, ctxDone, cctxDone, mainPc,
                   restarts>>
    /\ UNCHANGED <<batchSize, updates, batch, balances, events, cache,
                   cacheVersion, failures, applied, lastCall>>
    /\ UNCHANGED syncVars
    /\ UNCHANGED <<consumerVars, restVars>>

\* The broker delivers a message of a closed channel again under a new tag
\* to the consumer of the new channel.
RedeliverUnacked ==
    /\ Consuming
    /\ Len(deliveries) < MaxDeliveries
    /\ \E t \in Tags :
          /\ Disp(t) # <<>>
          /\ Head(Disp(t)) = "closed"
          /\ ~deliveries[t].redelivered
          /\ deliveries' = Append([deliveries EXCEPT ![t].redelivered = TRUE],
                                  NewDelivery(Payload(t)))
    /\ UNCHANGED <<batchSize, consumed, updates, batch, balances, events,
                   cache, cacheVersion, failures, applied, lastCall>>
    /\ UNCHANGED syncVars
    /\ UNCHANGED <<consumerVars, connVars, restVars>>

\* The broker delivers and the workers read only while a consumer is
\* registered on an open connection.
LivePublish ==
    /\ Consuming
    /\ Publish
    /\ deliveries'[Len(deliveries')].payload \in DropMessages

LiveRedeliver == Consuming /\ Redeliver

LiveProcessMessage == Consuming /\ processMessage

\* reconnect: c.connect() with a broker that is reachable again after at
\* most MaxFailedAttempts failed attempts.
ReachableAttempt ==
    /\ ReconnectAttempt
    /\ attempt > MaxFailedAttempts => conn' = "open"

\* The steps of the connection manager while no shutdown is requested.
DropProgram ==
    \/ MonitorNotified
    \/ ReconnectTeardown
    \/ ReachableAttempt
    \/ ReconnectWaitOver
    \/ RestartStart
    \/ MainStart
    \/ WorkerStreamClosed

\* The process between start and shutdown signal: the connection may drop
\* while the write path runs. With batches of one item every Receive
\* flushes and the ticker finds the buffer empty.
NextDrop ==
    \/ StreamDropped
    \/ RedeliverUnacked
    \/ LivePublish
    \/ LiveRedeliver
    \/ LiveProcessMessage
    \/ Receive
    \/ DropProgram

SpecDrop == InitConnSpec /\ [][NextDrop]_vars

(***************************************************************************)
(* Shutdown of the write path. main starts ProcessBatches as a goroutine   *)
(* on the context of signal.NotifyContext and waits only for               *)
(* rmqConsumer.Start and the deferred Close; when main returns the process *)
(* ends with whatever ProcessBatches has not done yet. Every store call on *)
(* a cancelled context returns the context's error.                        *)
(***************************************************************************)
\* flush once ctx is cancelled: EventExists fails for every item it is
\* called for ("will process anyway"), in-batch duplicates are acked, and
\* SaveEventsBatch fails, so flush nacks the batch with requeue. A batch
\* that yields no event reaches no store call and is acked.
flushCancelled(local) ==
    LET st == Scan(ScanInit, local, 1, events, ExistsCalled(local))
        early == Dispose(Dispose(deliveries, st.invalid, "drop"),
                         st.toAck, "ack")
    IN /\ deliveries' = Dispose(early, local,
                                IF st.events # <<>> THEN "requeue" ELSE "ack")
       /\ UNCHANGED <<events, balances, cache, cacheVersion, applied,
                      failures>>

\* ProcessBatches is running in a live process.
Accumulating == Running /\ accPc = "running"

AccReceive == Accumulating /\ ~ctxDone /\ Receive

AccTick == Accumulating /\ ~ctxDone /\ Tick

\* select picks "case upd, ok := <-updates" although ctx is cancelled.
AccReceiveCancelled ==
    /\ Accumulating
    /\ ctxDone
    /\ updates # <<>>
    /\ updates' = Tail(updates)
    /\ LET b == Append(batch, Head(updates)) IN
          IF Len(b) >= batchSize
          THEN /\ batch' = <<>>
               /\ flushCancelled(b)
          ELSE /\ batch' = b
               /\ UNCHANGED <<deliveries, events, balances, cache,
                              cacheVersion, failures, applied>>
    /\ UNCHANGED <<batchSize, consumed, lastCall>>
    /\ UNCHANGED syncVars
    /\ UNCHANGED <<consumerVars, connVars, restVars>>

\* select picks "case <-ticker.C" although ctx is cancelled.
AccTickCancelled ==
    /\ Accumulating
    /\ ctxDone
    /\ batch # <<>>
    /\ batch' = <<>>
    /\ flushCancelled(batch)
    /\ UNCHANGED <<batchSize, consumed, updates, lastCall>>
    /\ UNCHANGED syncVars
    /\ UNCHANGED <<consumerVars, connVars, restVars>>

\* case <-ctx.Done(): flush(); return. What is on the updates channel
\* stays there.
AccCtxDone ==
    /\ Accumulating
    /\ ctxDone
    /\ accPc' = "exited"
    /\ batch' = <<>>
    /\ IF batch = <<>>
       THEN UNCHANGED <<deliveries, events, balances, cache, cacheVersion,
                        failures, applied>>
       ELSE flushCancelled(batch)
    /\ UNCHANGED <<batchSize, consumed, updates, lastCall>>
    /\ UNCHANGED syncVars
    /\ UNCHANGED <<consumerVars, connVars>>
    /\ UNCHANGED <<now, updatedAt, poolPc, poolBatch, poolRead, poolStarted,
                   poolAcked, syncRunVars>>

\* processMessage of a valid delivery once ctx is cancelled: its select
\* picks "case <-ctx.Done()" and nacks with requeue, whether or not the
\* channel has room (LiveProcessMessage covers the send).
CancelledProcessMessage ==
    /\ Consuming
    /\ ctxDone
    /\ consumed < Len(deliveries)
    /\ consumed' = consumed + 1
    /\ LET t == consumed + 1 IN
          /\ Payload(t).ok
          /\ Payload(t).UserID # ZeroUserID
          /\ deliveries' = [deliveries EXCEPT ![t].fate = "timeout",
                                              ![t].disp = Append(@, "requeue")]
    /\ UNCHANGED <<batchSize, updates, batch, balances, events, cache,
                   cacheVersion, failures, applied, lastCall>>
    /\ UNCHANGED syncVars
    /\ UNCHANGED <<consumerVars, connVars, restVars>>

NextShutdown ==
    \/ LivePublish
    \/ LiveRedeliver
    \/ LiveProcessMessage
    \/ CancelledProcessMessage
    \/ AccReceive
    \/ AccTick
    \/ AccReceiveCancelled
    \/ AccTickCancelled
    \/ AccCtxDone
    \/ Signal
    \/ MainStart
    \/ MainCtxDone
    \/ WorkerCtxDone
    \/ MainWaitReturns
    \/ MainClose
    \/ MonitorStopped
    \/ MainCloseDone

\* Batches of MaxBatchSize items, so that updates wait in the buffer.
InitShutdown == Init /\ batchSize = MaxBatchSize

SpecShutdown == InitShutdown /\ [][NextShutdown]_vars

(***************************************************************************)
(* Specification of runSync alone: passes of the cache synchronizer over a *)
(* balances table that is written only between passes.  GetAllBalances     *)
(* may fail; the pass is cut off by nothing else.                          *)
(***************************************************************************)
\* users of the balances table paged by runSync
MaxSyncRows == 3
\* largest cfg.Sync.BatchSize
MaxPageSize == 2
\* failed GetAllBalances calls in one behaviour
MaxSyncFailures == 4

SyncUsers == 1..MaxSyncRows

\* A writer upserts one balance with SaveBalance while no pass runs.
SeedBalance ==
    /\ syncPc = "idle"
    /\ \E u \in SyncUsers, a \in Amounts :
          LET b == [user |-> u, amount |-> a, version |-> 1] IN
             /\ balances' = SaveBalance(balances, b)
             /\ lastCall' = <<b>>
    /\ UNCHANGED pipelineVars
    /\ UNCHANGED syncVars
    /\ UNCHANGED <<consumerVars, connVars, restVars>>

\* balanceRepo.GetAllBalances(ctx, batchSize, offset) returns an error.
RunFetchFail ==
    /\ syncFails < MaxSyncFailures
    /\ syncFails' = syncFails + 1
    /\ FetchFailed
    /\ UNCHANGED failures

NextSyncRun ==
    \/ SeedBalance
    \/ SyncStart
    \/ SyncFetch
    \/ RunFetchFail
    \/ SyncStore

\* cfg.Sync.BatchSize is any page size from 1 to MaxPageSize.
InitSyncRunAnyPage ==
    /\ InitPipeline /\ InitSync /\ InitConsumer /\ InitConn /\ InitRest
    /\ batchSize = 1
    /\ syncBatchSize \in 1..MaxPageSize
    /\ synced = <<>>
    /\ syncResult = "none"
    /\ syncFails = 0

SpecSyncRun == InitSyncRunAnyPage /\ [][NextSyncRun]_vars


(***************************************************************************)
(* Specification of CacheSynchronizer.syncCache alone (balance-consumer):  *)
(* passes over a balance_updates table that is written only between        *)
(* passes, by a writer that does not share the cache.                      *)
(***************************************************************************)
\* One balance change per user, each with its own event_id.
SeedMessages ==
    {m \in [ok : {TRUE}, UserID : SyncUsers, NewAmount : Amounts,
             Version : {1}, Timestamp : {1}, EventID : SyncUsers] :
        m.EventID = m.UserID}

\* DB.SaveBalanceUpdate called while no pass runs.
SeedBalanceUpdate ==
    /\ csPc = "idle"
    /\ \E m \in SeedMessages :
          /\ SaveBalanceUpdate(balanceUpdates, m) # balanceUpdates
          /\ balanceUpdates' = SaveBalanceUpdate(balanceUpdates, m)
    /\ passState' = "none"
    /\ UNCHANGED <<msgs, handled, csCache, csPc, dbBalances, csRow, csLoaded>>
    /\ UNCHANGED <<serviceVars, failures, connVars, restVars>>

NextCacheSync ==
    \/ SeedBalanceUpdate
    \/ SyncCacheFetch
    \/ SyncCacheLoad
    \/ SyncCacheMerge

SpecCacheSync == InitConsumerSpec /\ [][NextCacheSync]_vars


(***************************************************************************)
(* Cancellation of the cache synchronizers.  SyncCache (balance-service)   *)
(* passes the context of main to runSync, which checks it before every     *)
(* page and hands it to every query; a query on a cancelled context fails  *)
(* at once.  CacheSynchronizer.Start (balance-consumer) calls syncCache,   *)
(* which runs on context.Background().  In both loops the select between   *)
(* ctx.Done() and ticker.C picks either case when both are ready.  The pc  *)
(* value "returned" stands for a loop that has returned.                   *)
(***************************************************************************)
\* runSync called on a live context, CountBalances returned total > 0.
LiveSyncStart == ~ctxDone /\ SyncStart

\* GetAllBalances on a live context.
LiveSyncFetch == ~ctxDone /\ SyncFetch

\* The context is cancelled when the next page is due: the check before the
\* page returns, or GetAllBalances fails with the context's error and the
\* wait before the retry returns on ctx.Done().
SyncCancelled ==
    /\ syncPc = "fetch"
    /\ ctxDone
    /\ SyncIdle
    /\ syncResult' = "cancelled"
    /\ UNCHANGED synced
    /\ UNCHANGED <<balances, lastCall>>
    /\ UNCHANGED pipelineVars
    /\ UNCHANGED <<consumerVars, connVars, poolClockVars, lateVars, syncBatchSize,
                   syncFails>>

\* SyncCache: case <-ctx.Done(): return.  (case <-ticker.C on a cancelled
\* context calls runSync, whose CountBalances fails: no step.)
SyncCacheReturns ==
    /\ syncPc = "idle"
    /\ ctxDone
    /\ syncPc' = "returned"
    /\ UNCHANGED <<syncOffset, syncPage, syncLen, syncErrors>>
    /\ UNCHANGED <<balances, lastCall>>
    /\ UNCHANGED pipelineVars
    /\ UNCHANGED <<consumerVars, connVars, restVars>>

NextSyncCancel ==
    \/ SeedBalance
    \/ Signal
    \/ LiveSyncStart
    \/ LiveSyncFetch
    \/ SyncStore
    \/ SyncCancelled
    \/ SyncCacheReturns

SpecSyncCancel == InitSyncRunAnyPage /\ [][NextSyncCancel]_vars

\* main of balance-consumer: <-sigChan, cancel().
ConsumerCancel ==
    /\ ~ctxDone
    /\ ctxDone' = TRUE
    /\ UNCHANGED <<conn, monitorPc, attempt, waits, cctxDone, mainPc,
                   workersTop, workersOwn, orphans, restarts, drops>>
    /\ UNCHANGED otherVars

\* CacheSynchronizer.Start: the initial syncCache, or case <-ticker.C.
StartSyncCache ==
    /\ csPc = "idle"
    /\ SyncCacheFetch

\* CacheSynchronizer.Start: case <-ctx.Done(): return.
StartReturns ==
    /\ csPc = "idle"
    /\ ctxDone
    /\ csPc' = "returned"
    /\ UNCHANGED <<msgs, handled, balanceUpdates, csCache, dbBalances, csRow,
                   csLoaded, passState>>
    /\ UNCHANGED <<serviceVars, failures, connVars, restVars>>

NextCacheSyncCancel ==
    \/ SeedBalanceUpdate
    \/ ConsumerCancel
    \/ StartSyncCache
    \/ SyncCacheLoad
    \/ SyncCacheMerge
    \/ StartReturns

SpecCacheSyncCancel == InitConsumerSpec /\ [][NextCacheSyncCancel]_vars


(***************************************************************************)
(* Decoding of the wire message (BalanceMessage): the two spellings of the *)
(* amount and of the timestamp, and the timestamp formats.  A timestamp    *)
(* text is its format and the instant it denotes; instants lie after the   *)
(* clock values so that a fallback to time.Now() shows.                    *)
(***************************************************************************)
MaxInstant == 2

Instants == (MaxClock + 1)..(MaxClock + MaxInstant)

\* "" : the field is absent or empty.
EmptyText == [format |-> "empty", instant |-> 0]

TimestampTexts ==
    {EmptyText} \cup
    [format : {"rfc3339", "datetime"}, instant : Instants] \cup
    [format : {"garbage"}, instant : {MaxClock + 1}]

\* The fields of BalanceMessage that have two spellings.
AliasedMessages ==
    [NewAmount : 0..MaxAmount, Amount : 0..MaxAmount,
     Timestamp : TimestampTexts, UpdatedAt : TimestampTexts]

\* if m.UpdatedAt != "" { return m.UpdatedAt }; return m.Timestamp
GetTimestamp(m) ==
    IF m.UpdatedAt # EmptyText THEN m.UpdatedAt ELSE m.Timestamp

\* time.Parse(layout, ts): time.RFC3339, "2006-01-02T15:04:05Z07:00" and
\* time.RFC3339Nano accept an RFC 3339 text, "2006-01-02 15:04:05" a
\* date-time text.
TimeParse(layout, ts) ==
    IF \/ layout \in {"RFC3339", "2006-01-02T15:04:05Z07:00", "RFC3339Nano"}
          /\ ts.format = "rfc3339"
       \/ layout = "2006-01-02 15:04:05" /\ ts.format = "datetime"
    THEN [ok |-> TRUE, t |-> ts.instant]
    ELSE [ok |-> FALSE, t |-> 0]

RECURSIVE TryFormats(_, _, _)
TryFormats(formats, ts, t0) ==
    IF formats = <<>> THEN [err |-> TRUE, t |-> t0]
    ELSE IF TimeParse(Head(formats), ts).ok
    THEN [err |-> FALSE, t |-> TimeParse(Head(formats), ts).t]
    ELSE TryFormats(Tail(formats), ts, t0)

\* ParseTimestamp called at time t0.
ParseTimestamp(m, t0) ==
    LET ts == GetTimestamp(m) IN
    IF ts = EmptyText THEN [err |-> FALSE, t |-> t0]
    ELSE IF TimeParse("RFC3339", ts).ok
    THEN [err |-> FALSE, t |-> TimeParse("RFC3339", ts).t]
    ELSE TryFormats(<<"2006-01-02T15:04:05Z07:00", "2006-01-02 15:04:05",
                      "RFC3339Nano">>, ts, t0)

\* handleBatch builds the event of a decoded message: Amount is GetAmount,
\* UpdatedAt is the parsed timestamp, or time.Now() when parsing failed.
DecodeMessage ==
    /\ \E m \in AliasedMessages :
          /\ decoded' = {m}
          /\ normalized' =
                {[amount |-> GetAmount(m),
                  timestamp |-> IF ParseTimestamp(m, now).err
                                THEN now ELSE ParseTimestamp(m, now).t,
                  at |-> now]}
    /\ UNCHANGED <<serviceVars, failures, consumerVars, connVars,
                   poolClockVars, syncBatchSize, synced, syncResult,
                   syncFails, producerVars>>

NextDecode ==
    \/ ClockTick
    \/ DecodeMessage

SpecDecode == Init /\ [][NextDecode]_vars


(***************************************************************************)
(* The producer: UpdateBalancesCommand::handle and                         *)
(* BalanceUpdaterService::updateRandomGroup running concurrently on the    *)
(* producer's balances table.  handle runs its SELECT ... FOR UPDATE and   *)
(* its UPDATE as separate autocommit statements (no DB::transaction), so   *)
(* the row locks end with the SELECT; updateRandomGroup reads and writes   *)
(* inside one transaction under FOR UPDATE SKIP LOCKED, which is one step. *)
(***************************************************************************)
\* balance changes committed in one behaviour
MaxChanges == 3

\* The users picked by inRandomOrder()->limit(n): any non-empty set.
RandomGroups == SUBSET Users \ {{}}

\* The events of the rows written, in any order of the users.
EventsOf(rows) ==
    {o \in [1..Cardinality(DOMAIN rows) ->
              {[user |-> u, amount |-> rows[u].amount,
                version |-> rows[u].version] : u \in DOMAIN rows}] :
        \A i, j \in DOMAIN o : i # j => o[i] # o[j]}

\* handle: $balances = Balance::query()->inRandomOrder()->limit(...)
\* ->lockForUpdate()->get()
CommandSelect(r) ==
    /\ cmdPc[r] = "idle"
    /\ \E S \in RandomGroups :
          cmdRead' = [cmdRead EXCEPT ![r] = [u \in S |-> prodBalances[u]]]
    /\ cmdPc' = [cmdPc EXCEPT ![r] = "selected"]
    /\ UNCHANGED <<prodBalances, dispatched, jobs, published, uniqids>>
    /\ UNCHANGED <<serviceVars, failures, consumerVars, connVars,
                   poolClockVars, syncBatchSize, synced, syncResult,
                   syncFails, decodeVars>>

\* handle: $newVersion = $balance->version + 1 for every selected row, the
\* UPDATE ... SET amount = CASE id ..., version = CASE id ... statement,
\* then event(new BalanceUpdated(...)) for every update.
CommandUpdate(r) ==
    /\ cmdPc[r] = "selected"
    /\ Len(dispatched) + Cardinality(DOMAIN cmdRead[r]) <= MaxChanges
    /\ \E a \in [DOMAIN cmdRead[r] -> Amounts] :
          LET rows == [u \in DOMAIN cmdRead[r] |->
                         [amount |-> a[u],
                          version |-> cmdRead[r][u].version + 1]]
          IN /\ prodBalances' = [u \in Users |->
                                   IF u \in DOMAIN rows THEN rows[u]
                                   ELSE prodBalances[u]]
             /\ \E evs \in EventsOf(rows) :
                   dispatched' = dispatched \o evs
    /\ cmdPc' = [cmdPc EXCEPT ![r] = "done"]
    /\ UNCHANGED <<cmdRead, jobs, published, uniqids>>
    /\ UNCHANGED <<serviceVars, failures, consumerVars, connVars,
                   poolClockVars, syncBatchSize, synced, syncResult,
                   syncFails, decodeVars>>

\* updateRandomGroup: DB::transaction { select FOR UPDATE SKIP LOCKED,
\* version + 1, upsert }, then dispatchUpdates.
ServiceUpdate ==
    /\ \E S \in RandomGroups :
          /\ Len(dispatched) + Cardinality(S) <= MaxChanges
          /\ \E a \in [S -> Amounts] :
                LET rows == [u \in S |->
                               [amount |-> a[u],
                                version |-> prodBalances[u].version + 1]]
                IN /\ prodBalances' = [u \in Users |->
                                         IF u \in S THEN rows[u]
                                         ELSE prodBalances[u]]
                   /\ \E evs \in EventsOf(rows) :
                         dispatched' = dispatched \o evs
    /\ UNCHANGED <<cmdPc, cmdRead, jobs, published, uniqids>>
    /\ UNCHANGED <<serviceVars, failures, consumerVars, connVars,
                   poolClockVars, syncBatchSize, synced, syncResult,
                   syncFails, decodeVars>>

NextProducer ==
    \/ \E r \in CommandRuns : CommandSelect(r) \/ CommandUpdate(r)
    \/ ServiceUpdate

SpecProducer == Init /\ [][NextProducer]_vars


(***************************************************************************)
(* The queued listener SendBalanceUpdateToRabbitMQ(Listiner)::handle run   *)
(* by the queue worker, and RabbitMQService::publish.  Every dispatched    *)
(* event is one queued job; the worker runs one job at a time.  jobs[j] is *)
(* the job of the change dispatched[j].                                    *)
(***************************************************************************)
\* RabbitMQService::$maxRetries
maxRetries == 3
\* SendBalanceUpdateToRabbitMQListiner::$tries
tries == 3
\* messages that reach the broker in one behaviour
MaxPublished == 3
\* changes dispatched to the queue in one behaviour
MaxQueued == 2

\* Cache::lock('balance_update_lock_<userId>_<version>') is held while a
\* handle call of a job of that user and version is running.
LockHeld(user, version) ==
    \E j \in 1..Len(jobs) :
       /\ jobs[j].pc = "handling"
       /\ dispatched[j].user = user
       /\ dispatched[j].version = version

\* BalanceUpdatedEvent::toArray with the event_id uniqid() returned.
ToArray(j, id) ==
    [change |-> j, user_id |-> dispatched[j].user,
     amount |-> dispatched[j].amount, version |-> dispatched[j].version,
     event_id |-> id]

\* The worker starts handle for the next queued job or for a job released
\* for another try: the lock is taken, $event->toArray() is evaluated (a
\* call of uniqid()) and publish() is entered with the array.
ListenerHandle(j) ==
    /\ \A k \in 1..Len(jobs) : jobs[k].pc # "handling"
    /\ j <= Len(dispatched)
    /\ \/ j = Len(jobs) + 1
       \/ j \in 1..Len(jobs) /\ jobs[j].pc = "released"
    /\ LET attempts == IF j = Len(jobs) + 1 THEN 1 ELSE jobs[j].attempts + 1
           job == IF LockHeld(dispatched[j].user, dispatched[j].version)
                  THEN [pc |-> "done", attempts |-> attempts, attempt |-> 0,
                        data |-> ToArray(j, 0)]
                  ELSE [pc |-> "handling", attempts |-> attempts,
                        attempt |-> 0, data |-> ToArray(j, uniqids + 1)]
       IN /\ jobs' = IF j = Len(jobs) + 1 THEN Append(jobs, job)
                     ELSE [jobs EXCEPT ![j] = job]
          /\ uniqids' = IF job.pc = "handling" THEN uniqids + 1 ELSE uniqids
    /\ UNCHANGED <<prodBalances, cmdPc, cmdRead, dispatched, published>>
    /\ UNCHANGED <<serviceVars, failures, consumerVars, connVars,
                   poolClockVars, syncBatchSize, synced, syncResult,
                   syncFails, decodeVars>>

\* publish: one pass of the while loop in which basic_publish and
\* wait_for_pending_acks return; handle returns and releases the lock.
PublishOk(j) ==
    /\ j \in 1..Len(jobs)
    /\ jobs[j].pc = "handling"
    /\ Len(published) < MaxPublished
    /\ published' = Append(published, jobs[j].data)
    /\ jobs' = [jobs EXCEPT ![j].pc = "done"]
    /\ UNCHANGED <<prodBalances, cmdPc, cmdRead, dispatched, uniqids>>
    /\ UNCHANGED <<serviceVars, failures, consumerVars, connVars,
                   poolClockVars, syncBatchSize, synced, syncResult,
                   syncFails, decodeVars>>

\* publish: one pass of the while loop that ends in the catch block.  The
\* exception may come before the frames were written or after the broker
\* took them (the connection fails behind basic_publish).  After
\* $maxRetries passes publish throws, handle rethrows and releases the
\* lock, and the worker releases the job for another try unless it was
\* tried $tries times.
PublishFail(j) ==
    /\ j \in 1..Len(jobs)
    /\ jobs[j].pc = "handling"
    /\ \E reached \in BOOLEAN :
          /\ reached => Len(published) < MaxPublished
          /\ published' = IF reached THEN Append(published, jobs[j].data)
                          ELSE published
    /\ jobs' = [jobs EXCEPT
                  ![j].attempt = @ + 1,
                  ![j].pc = IF jobs[j].attempt + 1 < maxRetries
                              THEN "handling"
                            ELSE IF jobs[j].attempts < tries THEN "released"
                            ELSE "failed"]
    /\ UNCHANGED <<prodBalances, cmdPc, cmdRead, dispatched, uniqids>>
    /\ UNCHANGED <<serviceVars, failures, consumerVars, connVars,
                   poolClockVars, syncBatchSize, synced, syncResult,
                   syncFails, decodeVars>>

\* event(): the queued listener of the dispatched event is pushed on the
\* queue in the call that dispatches it.
DispatchQueued ==
    /\ Len(dispatched) < MaxQueued
    /\ ServiceUpdate

NextListener ==
    \/ DispatchQueued
    \/ \E j \in 1..MaxQueued :
          ListenerHandle(j) \/ PublishOk(j) \/ PublishFail(j)

SpecListener == Init /\ [][NextListener]_vars


(***************************************************************************)
(* Claims.                                                                 *)
(***************************************************************************)
IncomingVersions(call, u) ==
    {call[i].version : i \in {j \in 1..Len(call) : call[j].user = u}}

\* C1: across every SaveBalance / SaveBalancesBatch call the stored version
\* of an entity never decreases; after the call it is the maximum of the
\* version stored before and the versions the call carried for the entity
\* (an entity the call does not mention keeps its row).
C1_VersionNeverDecreases ==
    [][\A u \in Users :
         LET inc == IncomingVersions(lastCall', u)
             old == IF HasRow(balances, u)
                    THEN {RowOf(balances, u).version} ELSE {}
         IN IF inc = {}
            THEN /\ HasRow(balances', u) = HasRow(balances, u)
                 /\ HasRow(balances, u) =>
                       RowOf(balances', u) = RowOf(balances, u)
            ELSE /\ HasRow(balances', u)
                 /\ RowOf(balances', u).version = SetMax(inc \cup old)
                 /\ \A v \in old : RowOf(balances', u).version >= v]_vars

\* C1 witness: a call carried a version below the one the table holds.
C1_Witness ==
    \E u \in Users :
       /\ HasRow(balances, u)
       /\ \E v \in IncomingVersions(lastCall, u) :
             v < RowOf(balances, u).version

AppliedOf(u) == {a \in applied : a.user = u}

MaxAppliedVersion(u) == SetMax({a.version : a \in AppliedOf(u)})

\* C2 as stated: the stored (version, amount) of an entity is the
\* (version, amount) of the applied update with the maximum version,
\* whatever the delivery order.
C2_Original ==
    \A u \in Users :
       AppliedOf(u) # {} =>
          /\ HasRow(balances, u)
          /\ \A a \in AppliedOf(u) :
                a.version = MaxAppliedVersion(u) =>
                   /\ RowOf(balances, u).version = a.version
                   /\ RowOf(balances, u).amount = a.amount

\* C2 amended: the stored version of an entity is the maximum version among
\* the updates applied to it, and the stored amount is the amount of an
\* applied update that carries this version.
C2_MaxVersionWins ==
    \A u \in Users :
       AppliedOf(u) # {} =>
          /\ HasRow(balances, u)
          /\ RowOf(balances, u).version = MaxAppliedVersion(u)
          /\ \E a \in AppliedOf(u) :
                /\ a.version = MaxAppliedVersion(u)
                /\ a.amount = RowOf(balances, u).amount

\* C2 witness: updates with different versions were applied to one entity
\* and the one delivered last carried the lower version.
C2_Witness ==
    \E u \in Users :
       /\ \E a, b \in AppliedOf(u) : a.version < b.version
       /\ \E t \in Tags :
             /\ "ack" \in Range(Disp(t))
             /\ Payload(t).UserID = u
             /\ Payload(t).Version < RowOf(balances, u).version
             /\ \E t0 \in 1..(t - 1) :
                   /\ Payload(t0).UserID = u
                   /\ Payload(t0).Version = RowOf(balances, u).version


\* No delivery is waiting for a disposition or a redelivery.
Quiescent ==
    /\ consumed = Len(deliveries)
    /\ updates = <<>>
    /\ batch = <<>>
    /\ \A t \in Tags :
          /\ Disp(t) # <<>>
          /\ Head(Disp(t)) = "requeue" => deliveries[t].redelivered

EventVersions(u) ==
    {events[i].version : i \in {j \in 1..Len(events) : events[j].user = u}}

\* C3: in every quiescent state the stored version of an entity equals the
\* maximum version in its event log, so a flush that saved the events and
\* then failed on the balance upsert loses nothing once the redelivered
\* messages are flushed and acked.
C3_NoLostUpdate ==
    Quiescent =>
       \A u \in Users :
          EventVersions(u) # {} =>
             /\ HasRow(balances, u)
             /\ RowOf(balances, u).version = SetMax(EventVersions(u))

\* The flush that is taking place in the step, <<>> when there is none.
FlushedNow ==
    IF batch # <<>> /\ batch' = <<>> /\ updates' = updates
    THEN batch
    ELSE IF updates # <<>> /\ updates' = Tail(updates) /\ batch' = <<>>
    THEN Append(batch, Head(updates))
    ELSE <<>>

\* The message was flushed before: its event is in the log as it stands.
IsReplay(t) ==
    /\ Payload(t).EventID # EmptyEventID
    /\ \E i \in 1..Len(events) : events[i] = EventOf(Payload(t))

\* C4: replaying a message with a non-empty event_id after it was flushed
\* leaves exactly one BalanceEvent row with that event_id, and a flush that
\* carries only replays for an entity leaves the entity's BalanceState row
\* as it was.
C4_ReplayIsIdempotent ==
    /\ [](\A e \in EventIDs \ {EmptyEventID} : EventRows(events, e) <= 1)
    /\ [][\A u \in Users :
            (/\ \E i \in 1..Len(FlushedNow) :
                   Payload(FlushedNow[i]).UserID = u
             /\ \A i \in 1..Len(FlushedNow) :
                   Payload(FlushedNow[i]).UserID = u =>
                      IsReplay(FlushedNow[i]))
            => /\ HasRow(balances', u) = HasRow(balances, u)
               /\ HasRow(balances, u) =>
                     RowOf(balances', u) = RowOf(balances, u)]_vars

\* C5: every delivery receives at most one of Ack, Nack(requeue) and
\* Nack(no requeue).
C5_AtMostOneDisposition ==
    \A t \in Tags : Len(Disp(t)) <= 1

\* The update of the delivery is in the event log and the balances table
\* has taken a version at least as high for its entity.
Recorded(t) ==
    /\ \E i \in 1..Len(events) :
          IF Payload(t).EventID # EmptyEventID
          THEN events[i].eventID = Payload(t).EventID
          ELSE events[i] = EventOf(Payload(t))
    /\ HasRow(balances, Payload(t).UserID)
    /\ RowOf(balances, Payload(t).UserID).version >= Payload(t).Version

\* C6: a delivery is acked only if its update is durably recorded, and a
\* delivery of a failed flush (nacked with requeue) is not acked.
C6_AtLeastOnce ==
    \A t \in Tags :
       /\ "ack" \in Range(Disp(t)) => Recorded(t)
       /\ "requeue" \in Range(Disp(t)) => "ack" \notin Range(Disp(t))

\* C7: when a synchronizer pass stores a row whose version is below the
\* version the cache holds for the id, the cache entry stays as it is.
C7_NoStaleOverwrite ==
    [][(/\ syncPc = "store"
        /\ syncPage' # syncPage
        /\ Head(syncPage).user \in DOMAIN cacheVersion
        /\ Head(syncPage).version < cacheVersion[Head(syncPage).user])
       => /\ cache'[Head(syncPage).user] = cache[Head(syncPage).user]
          /\ cacheVersion'[Head(syncPage).user]
                = cacheVersion[Head(syncPage).user]]_vars

\* C8: under every interleaving with the write path, a synchronizer write
\* never replaces a cache entry by data of a lower version than the entry
\* holds at the moment of the write.
C8_SyncWriteNeverLowers ==
    [][(csPc = "loaded" /\ csPc' # "loaded") =>
          \A u \in DOMAIN csCache :
             csCache'[u].version >= csCache[u].version]_vars

\* C9: once a synchronizer pass that began after the write path finished
\* has run to completion, the cache holds for every id of the store the
\* amount and version of the store's row for that id.
C9_CacheConverges ==
    passState = "complete" =>
       \A r \in LatestRows(balanceUpdates) :
          /\ r.user \in DOMAIN csCache
          /\ csCache[r.user] = [amount |-> r.amount, version |-> r.version]

Valid(t) == Payload(t).ok /\ Payload(t).UserID # ZeroUserID

\* C10: a valid delivery that timed out on the full channel is nacked with
\* requeue exactly once, is neither on the channel nor in the buffer and is
\* never acked; a valid delivery a worker has processed is either handed to
\* the accumulator (on the channel, in the buffer or disposed by a flush) or
\* nacked with requeue.
C10_Backpressure ==
    \A t \in Tags :
       /\ deliveries[t].fate = "timeout" =>
             /\ Valid(t)
             /\ Disp(t) = <<"requeue">>
             /\ t \notin Range(updates)
             /\ t \notin Range(batch)
       /\ (Valid(t) /\ t <= consumed) =>
             \/ deliveries[t].fate = "timeout"
             \/ /\ deliveries[t].fate = "sent"
                /\ "drop" \notin Range(Disp(t))
                /\ \/ t \in Range(updates)
                   \/ t \in Range(batch)
                   \/ Disp(t) # <<>>

\* C10 witness: a valid delivery timed out on the full channel and holds
\* the single disposition nack-with-requeue, while the accumulator has
\* flushed and acked another delivery.
C10_Witness ==
    \E t \in Tags :
       /\ Valid(t)
       /\ deliveries[t].fate = "timeout"
       /\ Disp(t) = <<"requeue">>
       /\ \E t2 \in Tags : Disp(t2) = <<"ack">>

\* C11: once every reconnect attempt has failed the process exits: it does
\* not stay running with no connection, no worker and no reconnect attempt
\* pending while no step of its own is left to take.
C11_ExhaustionIsFatal ==
    (/\ Running
     /\ monitorPc = "gaveUp"
     /\ conn = "nil"
     /\ WaitGroup = 0
     /\ restarts = 0)
    => ENABLED ConnProgram

\* Start(ctx) of main has returned.
StartReturned == mainPc \in {"returned", "closeWait", "done"}

\* C13: Start(ctx) returns only after ctx is cancelled, and once ctx is
\* cancelled the process can always take a step until Start has returned,
\* also after consumption was restarted by reconnect.
C13_DrainTerminates ==
    /\ StartReturned => ctxDone
    /\ (ctxDone /\ mainPc \in {"blocked", "wgWait"}) => ENABLED ConnProgram

\* C18: every connect attempt of reconnect is made after channel and
\* connection were torn down, reconnect makes at most maxReconnectAttempts
\* attempts, the wait after the k-th failed attempt is k times
\* reconnectDelay, and no attempt follows a successful connect.
C18_BoundedLinearBackoff ==
    /\ [](/\ Len(waits) <= maxReconnectAttempts
          /\ \A k \in 1..Len(waits) : waits[k] = k * reconnectDelay
          /\ \A k \in 1..(Len(waits) - 1) : waits[k] < waits[k + 1])
    /\ [][/\ (monitorPc = "attempt" /\ monitorPc' # "attempt") =>
                /\ conn = "nil"
                /\ Len(waits) < maxReconnectAttempts
                /\ \/ conn' = "open" /\ monitorPc' = "watch" /\ waits' = waits
                   \/ conn' = "nil" /\ monitorPc' = "wait"
                      /\ Len(waits') = Len(waits) + 1
          /\ (conn = "nil" /\ conn' = "open") => monitorPc = "attempt"
          /\ (waits' # waits /\ waits' # <<>>) => monitorPc = "attempt"]_vars

\* C18 witness: reconnect has failed maxReconnectAttempts times, slept
\* after each failure and given up.
C18_Witness ==
    /\ monitorPc = "gaveUp"
    /\ Len(waits) = maxReconnectAttempts
    /\ waits[maxReconnectAttempts] = maxReconnectAttempts * reconnectDelay

\* C14: a delivery whose payload does not decode or whose user id is zero
\* is nacked without requeue and nothing else, never reaches the channel or
\* the buffer, leaves no row in balance_events or balances, and the worker
\* goes on to the next delivery.
C14_MalformedRejected ==
    /\ \A t \in Tags :
          (t <= consumed /\ ~Valid(t)) =>
             /\ deliveries[t].fate = "rejected"
             /\ Disp(t) = <<"drop">>
             /\ t \notin Range(updates)
             /\ t \notin Range(batch)
    /\ \A i \in 1..Len(events) : events[i].user # ZeroUserID
    /\ \A i \in 1..Len(balances) : balances[i].user # ZeroUserID
    /\ consumed < Len(deliveries) => ENABLED processMessage

\* C14 witness: an undecodable delivery and a delivery without user id
\* were rejected, and a delivery that came after them was flushed and
\* acked.
C14_Witness ==
    \E t1, t2, t3 \in Tags :
       /\ t1 < t3 /\ t2 < t3
       /\ ~Payload(t1).ok /\ Disp(t1) = <<"drop">>
       /\ Payload(t2).ok /\ Payload(t2).UserID = ZeroUserID
       /\ Disp(t2) = <<"drop">>
       /\ Disp(t3) = <<"ack">>
       /\ Recorded(t3)

\* The Ack / Nack calls the step makes on delivery t.
Gained(t) ==
    SubSeq(deliveries'[t].disp, Len(Disp(t)) + 1, Len(deliveries'[t].disp))

\* Storage calls that failed during the step.
FailedCalls == failures' - failures

\* C15: a flush during which the store fails on fewer than 3 calls ends
\* with every delivery of the batch acked exactly once and none nacked,
\* with one event row for every non-empty event_id of the batch and a
\* balance row for every entity of the batch.
C15_TransientFailureAbsorbed ==
    [][(FlushedNow # <<>> /\ FailedCalls \in 1..2) =>
          /\ \A i \in 1..Len(FlushedNow) : Gained(FlushedNow[i]) = <<"ack">>
          /\ \A i \in 1..Len(FlushedNow) :
                /\ Payload(FlushedNow[i]).EventID # EmptyEventID =>
                      EventRows(events', Payload(FlushedNow[i]).EventID) = 1
                /\ HasRow(balances', Payload(FlushedNow[i]).UserID)]_vars

\* C17: when a flush fails, every delivery of the batch is nacked with
\* requeue and none of them is acked.
C17_FailedFlushNacksAll ==
    [][(/\ FlushedNow # <<>>
        /\ \E i \in 1..Len(FlushedNow) :
              "requeue" \in Range(Gained(FlushedNow[i])))
       => \A i \in 1..Len(FlushedNow) :
              Gained(FlushedNow[i]) = <<"requeue">>]_vars

\* Item i of the batch repeats the non-empty event_id of an earlier item.
LaterOccurrence(local, i) ==
    /\ Payload(local[i]).EventID # EmptyEventID
    /\ \E j \in 1..(i - 1) :
          Payload(local[j]).EventID = Payload(local[i]).EventID

\* Rows the step appends to balance_events.
AppendedEvents == SubSeq(events', Len(events) + 1, Len(events'))

C20_PersistedIdempotency ==
    [][FlushedNow # <<>> =>
         LET local == FlushedNow
             known == {i \in 1..Len(local) :
                         /\ Payload(local[i]).EventID # EmptyEventID
                         /\ EventExists(events, Payload(local[i]).EventID)}
         IN /\ \A i \in known :
                  /\ "ack" \in Range(Gained(local[i]))
                  /\ EventRows(events', Payload(local[i]).EventID)
                        = EventRows(events, Payload(local[i]).EventID)
            /\ \A u \in Users :
                  (/\ \E i \in known : Payload(local[i]).UserID = u
                   /\ \A i \in 1..Len(local) :
                         Payload(local[i]).UserID = u => i \in known)
                  => /\ HasRow(balances', u) = HasRow(balances, u)
                     /\ HasRow(balances, u) =>
                           RowOf(balances', u) = RowOf(balances, u)]_vars

\* Positions of the batch that survive validation and both idempotency
\* checks.
Survivors(local) ==
    {i \in 1..Len(local) :
        /\ Payload(local[i]).UserID # ZeroUserID
        /\ ~LaterOccurrence(local, i)
        /\ ~(/\ Payload(local[i]).EventID # EmptyEventID
             /\ EventExists(events, Payload(local[i]).EventID))}

\* Survivors of entity u, and those of them that carry its highest version.
SurvivorsOf(local, u) == {i \in Survivors(local) : Payload(local[i]).UserID = u}

TopSurvivors(local, u) ==
    {i \in SurvivorsOf(local, u) :
        \A j \in SurvivorsOf(local, u) :
           Payload(local[j]).Version <= Payload(local[i]).Version}

\* The events of the positions in set S of the batch, in arrival order.
RECURSIVE EventsAt(_, _, _)
EventsAt(local, S, i) ==
    IF i > Len(local) THEN <<>>
    ELSE IF i \in S
    THEN <<EventOf(Payload(local[i]))>> \o EventsAt(local, S, i + 1)
    ELSE EventsAt(local, S, i + 1)

\* A flush in which every store call succeeds.
CleanFlush == FlushedNow # <<>> /\ FailedCalls = 0

\* What C16 says of the event log and of the balance write: every survivor
\* is appended as an event row in arrival order, and the row of an entity
\* with survivors is the upsert of one of its highest-version survivors.
BatchWriteOf(local) ==
    /\ AppendedEvents = EventsAt(local, Survivors(local), 1)
    /\ \A u \in Users :
          SurvivorsOf(local, u) # {} =>
             /\ HasRow(balances', u)
             /\ \E i \in TopSurvivors(local, u) :
                   RowOf(balances', u) =
                      RowOf(UpsertRow(balances, BalanceOf(Payload(local[i]))), u)

UnackedAtDrop(t) == Disp(t) # <<>> /\ Head(Disp(t)) = "closed"

\* Nothing is waiting on the write path: every delivery is read and
\* settled, and every requeued message is delivered again.
DropQuiescent ==
    /\ consumed = Len(deliveries)
    /\ updates = <<>>
    /\ batch = <<>>
    /\ \A t \in Tags :
          /\ Disp(t) # <<>>
          /\ Head(Disp(t)) \in {"requeue", "closed"} =>
                deliveries[t].redelivered

\* C12: after a drop the connection manager is never stuck short of the
\* open connection while attempts are left, an open connection that
\* followed a drop gets workers on its stream, and once the write path is
\* quiescent every valid message that was unacked when its connection
\* dropped has been delivered again, acked, and is recorded in the event
\* log and the balances table.
C12_ReconnectLosesNothing ==
    /\ (/\ Running
        /\ conn # "open"
        /\ monitorPc # "gaveUp") => ENABLED DropProgram
    /\ (/\ Running
        /\ drops > 0
        /\ conn = "open"
        /\ monitorPc = "watch"
        /\ restarts = 0) => workersOwn > 0
    /\ (DropQuiescent /\ Consuming) =>
          \A t \in Tags :
             (UnackedAtDrop(t) /\ Valid(t)) =>
                /\ \E t2 \in Tags :
                      /\ t2 > t
                      /\ Payload(t2) = Payload(t)
                      /\ "ack" \in Range(Disp(t2))
                /\ Recorded(t)

\* Positions of the batch whose message has a user and no event_id.
EmptyIdItems(local) ==
    {i \in 1..Len(local) :
        /\ Payload(local[i]).UserID # ZeroUserID
        /\ Payload(local[i]).EventID = EmptyEventID}

EmptyIdRows(rows) == SelectSeq(rows, LAMBDA r : r.eventID = EmptyEventID)

C22_StaleUpsertTouchesNothing ==
    [][(now' = now /\ lastCall' # <<>>) =>
         \A u \in Users :
            (/\ HasRow(balances, u)
             /\ IncomingVersions(lastCall', u) # {}
             /\ \A v \in IncomingVersions(lastCall', u) :
                   v < RowOf(balances, u).version)
            => /\ RowOf(balances', u) = RowOf(balances, u)
               /\ updatedAt'[u] = updatedAt[u]]_vars

\* The event_ids of the rows, the empty one left out.
IdsOf(rows) == {rows[i].eventID : i \in 1..Len(rows)} \ {EmptyEventID}

\* C23: a SaveEventsBatch call leaves the rows of the log as they are,
\* and when neither the log nor the batch repeats a non-empty event_id,
\* the log holds afterwards exactly one row for every non-empty event_id
\* of the log and of the batch.
C23_IdempotentBulkInsert ==
    [][lastCall' # lastCall =>
         /\ SubSeq(events', 1, Len(events)) = events
         /\ (/\ \A e \in IdsOf(events) : EventRows(events, e) = 1
             /\ \A e \in IdsOf(lastCall') : EventRows(lastCall', e) = 1)
            => \A e \in IdsOf(events) \cup IdsOf(lastCall') :
                  EventRows(events', e) = 1]_vars

\* C24: a flush that acks its batch either had a store call fail and left
\* the cache as it was, or left for every entity with a surviving item the
\* amount of the entity's stored row in the cache; without a failed call
\* the cache is refreshed, and an entity whose stored version was higher
\* than every surviving item's gets the amount the store held before.
C24_CacheReadsBack ==
    [][(/\ FlushedNow # <<>>
        /\ \A i \in 1..Len(FlushedNow) :
              "requeue" \notin Range(Gained(FlushedNow[i])))
       => /\ \/ FailedCalls > 0 /\ cache' = cache
             \/ \A u \in Users :
                   SurvivorsOf(FlushedNow, u) # {} =>
                      /\ u \in DOMAIN cache'
                      /\ cache'[u] = RowOf(balances', u).amount
          /\ FailedCalls = 0 =>
                \A u \in Users :
                   (/\ SurvivorsOf(FlushedNow, u) # {}
                    /\ HasRow(balances, u)
                    /\ \A i \in SurvivorsOf(FlushedNow, u) :
                          Payload(FlushedNow[i]).Version
                             < RowOf(balances, u).version)
                   => /\ u \in DOMAIN cache'
                      /\ cache'[u] = RowOf(balances, u).amount]_vars

\* C24 witness: a batch with a lower version and another amount was flushed
\* and acked after the store had taken a higher version; the cache holds
\* the amount of the stored higher version.
C24_Witness ==
    \E t1, t2 \in Tags :
       /\ t1 < t2
       /\ batchSize = 1
       /\ failures = 0
       /\ Payload(t1).UserID = Payload(t2).UserID
       /\ Payload(t1).Version > Payload(t2).Version
       /\ GetAmount(Payload(t1)) # GetAmount(Payload(t2))
       /\ Disp(t1) = <<"ack">>
       /\ Disp(t2) = <<"ack">>
       /\ Len(events) = 2
       /\ balances = <<BalanceOf(Payload(t1))>>
       /\ cache[Payload(t1).UserID] = GetAmount(Payload(t1))

\* C25: once every flusher of the pool has completed its flush, the cache
\* holds for every stored entity the amount of its row.
C25_PoolCacheMatchesStore ==
    (/\ poolStarted > 0
     /\ \A w \in PoolWorkers : poolPc[w] = "idle")
    => \A u \in Users :
          HasRow(balances, u) =>
             /\ u \in DOMAIN cache
             /\ cache[u] = RowOf(balances, u).amount

\* C26: between steps the buffer holds fewer than batchSize items, a step
\* that fills it to batchSize flushes it whole, and while the buffer is
\* empty a step that receives nothing writes neither events nor balances
\* nor cache and gives no disposition to a delivery that has been sent to
\* the accumulator.
C26_FlushTrigger ==
    /\ [](Len(batch) < batchSize)
    /\ [][(/\ updates # <<>>
           /\ updates' = Tail(updates)
           /\ Len(batch) + 1 >= batchSize)
          => /\ batch' = <<>>
             /\ \A i \in 1..Len(batch) : Gained(batch[i]) # <<>>
             /\ Gained(Head(updates)) # <<>>]_vars
    /\ [][(batch = <<>> /\ updates' = updates)
          => /\ events' = events
             /\ balances' = balances
             /\ cache' = cache
             /\ \A t \in Tags :
                   deliveries[t].fate = "sent" =>
                      deliveries'[t].disp = deliveries[t].disp]_vars

\* C26 witness: with batchSize 2 a batch of two has been flushed and acked
\* and a third update waits alone in the buffer.
C26_Witness ==
    /\ batchSize = 2
    /\ Len(batch) = 1
    /\ Len(events) = 2
    /\ \E t1, t2 \in Tags :
          /\ t1 < t2
          /\ Disp(t1) = <<"ack">>
          /\ Disp(t2) = <<"ack">>
          /\ Disp(batch[1]) = <<>>

\* The delivery is in the buffer of the accumulator or has left it.
Buffered(t) ==
    /\ deliveries[t].fate = "sent"
    /\ \A i \in 1..Len(updates) : updates[i] # t

\* C27: once the accumulator has returned after the cancellation, or the
\* process has ended, every delivery that reached the accumulator's
\* buffer has a disposition, and the buffer is empty when the accumulator
\* returns.
C27_FinalFlush ==
    /\ accPc = "exited" => batch = <<>>
    /\ (accPc = "exited" \/ ~Running) =>
          \A t \in Tags : Buffered(t) => Disp(t) # <<>>

\* C28: once the accumulator has returned after the cancellation, every
\* delivery that a worker placed on the updates channel has exactly one
\* disposition.
C28_EveryUpdateDisposed ==
    accPc = "exited" =>
       \A t \in Tags : deliveries[t].fate = "sent" => Len(Disp(t)) = 1

\* The users that have a row in the balance_updates table.
StoredUsers == {r.user : r \in balanceUpdates}

\* C29: when a pass of syncCache over an unchanging table has completed,
\* every user of the table has been fetched and merged into the cache.
C29_PassVisitsWholeTable ==
    passState = "complete" => StoredUsers \subseteq DOMAIN csCache

\* runSync over a table that does not change during the pass: a pass that
\* ends at an empty or short page has stored exactly the rows of the table,
\* each once and in table order; the offset advances by the length of a
\* full page; the pass goes on after a full page only.
RunSyncVisitsWholeTable ==
    [][/\ (syncResult = "none" /\ syncResult' = "completed")
             => synced' = balances
       /\ syncOffset' > syncOffset
             => /\ syncOffset' = syncOffset + syncLen
                /\ syncLen = syncBatchSize
       /\ (syncPc = "store" /\ syncPc' = "idle")
             => syncLen < syncBatchSize]_vars

\* A pass of runSync over three rows has ended at a short second page.
RunSyncWholeTableWitness ==
    /\ syncResult = "completed"
    /\ Len(synced) = MaxSyncRows
    /\ synced = balances
    /\ syncBatchSize = 2

\* The rows the pass has stored are in the cache.
SyncedInCache(c) ==
    \A i \in 1..Len(synced) :
       /\ synced[i].user \in DOMAIN c
       /\ c[synced[i].user] = synced[i].amount

\* C30: a failed page fetch of runSync leaves the offset where it was and
\* the pass goes on to fetch again, until the third failure in a row ends
\* the pass; a pass is aborted by nothing else, the abort leaves the cache
\* with the rows merged so far, a stored full page sets the failure count
\* back to 0, and every pass starts at offset 0 with no failures counted.
C30_BoundedRetry ==
    /\ [](syncErrors < 3)
    /\ [][LET failed == syncFails' = syncFails + 1 IN
            /\ (failed /\ syncErrors < 2)
                  => /\ syncPc' = "fetch"
                     /\ syncOffset' = syncOffset
                     /\ syncErrors' = syncErrors + 1
                     /\ syncResult' = "none"
            /\ (failed /\ syncErrors = 2) => syncResult' = "aborted"
            /\ (syncResult = "none" /\ syncResult' = "aborted")
                  => /\ failed /\ syncErrors = 2
                     /\ syncPc' = "idle"
                     /\ cache' = cache
                     /\ synced' = synced
                     /\ SyncedInCache(cache')
            /\ syncOffset' > syncOffset => syncErrors' = 0
            /\ (syncPc = "idle" /\ syncPc' # "idle")
                  => syncOffset' = 0 /\ syncErrors' = 0]_vars

\* A pass has been aborted after it had merged some rows of the table but
\* not all, and the merged rows are in the cache.
C30_Witness ==
    /\ syncResult = "aborted"
    /\ synced # <<>>
    /\ Len(synced) < Len(balances)
    /\ SyncedInCache(cache)

\* runSync and SyncCache under cancellation: once the context is cancelled
\* no pass starts and no page is fetched, the cache is written only with
\* the rest of the page fetched before, and the loop can return as soon as
\* the pass has been left.
RunSyncAbandoned ==
    /\ [](ctxDone /\ syncPc = "idle" => ENABLED SyncCacheReturns)
    /\ [](ctxDone /\ syncPc = "fetch" => ENABLED SyncCancelled)
    /\ [][ctxDone =>
            /\ ~(syncPc = "idle" /\ syncPc' = "fetch")
            /\ ~(syncPc = "fetch" /\ syncPc' = "store")
            /\ (cache' # cache => syncPc = "store")]_vars

\* A pass of runSync over several rows was cut off by the cancellation.
RunSyncAbandonedWitness ==
    /\ syncPc = "returned"
    /\ syncResult = "cancelled"
    /\ synced # <<>>
    /\ Len(synced) < Len(balances)

\* C31: once the top-level context is cancelled, the synchronizer of
\* balance-consumer fetches no further page and starts no new pass.
C31_RunAbandoned ==
    [][ctxDone => ~(csPc = "idle" /\ csPc' = "loop")]_vars

\* The balance_events log of balance-service only grows at its end: every
\* row stays where and what it is.
EventLogAppendOnly ==
    [][/\ Len(events') >= Len(events)
       /\ \A i \in 1..Len(events) : events'[i] = events[i]]_vars

\* C32: a row written to the balance_updates log of balance-consumer is
\* never changed or removed by a later save.
C32_LogAppendOnly ==
    [][\A r \in balanceUpdates : r \in balanceUpdates']_vars

\* The deliveries handed to the accumulator, in the order of their arrival.
SentTags == SelectSeq([t \in Tags |-> t], LAMBDA t : deliveries[t].fate = "sent")

\* The dedup map of handleBatch had all of them arrived in one batch on an
\* empty event log.
OneBatchDeduped == Scan(ScanInit, SentTags, 1, <<>>, {}).deduped

\* Every delivery has been read and flushed, no store call has failed and
\* no send has timed out.
DrainedCleanly ==
    /\ consumed = Len(deliveries)
    /\ updates = <<>>
    /\ batch = <<>>
    /\ failures = 0
    /\ \A t \in Tags : deliveries[t].fate # "timeout"

\* C33: once the deliveries have been processed without any failure, the
\* row of every entity is the one a single batch holding all of them would
\* have written, however the accumulator cut them into batches.
C33_BatchingInvariance ==
    DrainedCleanly =>
       \A u \in DOMAIN OneBatchDeduped :
          /\ HasRow(balances, u)
          /\ RowOf(balances, u) = BalanceOf(Payload(OneBatchDeduped[u]))

\* C34: no step of the per-message consumer or of its synchronizer lowers
\* the cached version of an entity.
C34_CachedVersionNeverDecreases ==
    [][\A u \in DOMAIN csCache :
          /\ u \in DOMAIN csCache'
          /\ csCache'[u].version >= csCache[u].version]_vars

\* The sets of cfg.Workers workers that read an open delivery stream.
ConsumingSets == (IF workersTop THEN 1 ELSE 0) + workersOwn

\* C35: at most one set of cfg.Workers workers consumes at any time.
C35_ConsumptionStartedOnce == ConsumingSets <= 1

\* The text stands for an instant in one of the accepted formats.
Parseable(ts) == ts.format \in {"rfc3339", "datetime"}

\* C36: the normalized amount is new_amount unless it is zero, else
\* amount; the normalized timestamp is the instant of the field timestamp
\* unless that is empty, else of updated_at, and the time of processing
\* when the chosen text is empty or in no accepted format.
C36_AliasesResolvedInSchemaOrder ==
    \A m \in decoded : \A n \in normalized :
       /\ n.amount = IF m.NewAmount # 0 THEN m.NewAmount ELSE m.Amount
       /\ LET ts == IF m.Timestamp # EmptyText THEN m.Timestamp
                    ELSE m.UpdatedAt
          IN n.timestamp = IF Parseable(ts) THEN ts.instant ELSE n.at

\* C37: every committed change of the producer raises the version of the
\* entity by exactly one, and no two dispatched changes of one entity carry
\* the same version.
C37_VersionsCountChanges ==
    /\ [](\A i, j \in 1..Len(dispatched) :
             (/\ i # j
              /\ dispatched[i].user = dispatched[j].user)
                => dispatched[i].version # dispatched[j].version)
    /\ [][\A u \in Users :
             Len(dispatched') > Len(dispatched)
             /\ (\E i \in (Len(dispatched) + 1)..Len(dispatched') :
                    dispatched'[i].user = u)
                => prodBalances'[u].version = prodBalances[u].version + 1]_vars

\* Every publication of one change carries one event_id.
SameChangeSameEventId ==
    \A p, q \in 1..Len(published) :
       published[p].change = published[q].change
          => published[p].event_id = published[q].event_id

\* Publications of different changes carry different event_ids.
DifferentChangesDifferentEventIds ==
    \A p, q \in 1..Len(published) :
       published[p].change # published[q].change
          => published[p].event_id # published[q].event_id

\* The publications repeated inside one publish call carry one event_id.
PublishLoopKeepsEventId ==
    \A j \in 1..Len(jobs) :
       jobs[j].attempts = 1 =>
          \A p, q \in 1..Len(published) :
             published[p].change = j /\ published[q].change = j
                => published[p].event_id = published[q].event_id

\* C38: the event_id identifies the logical change: every publication of
\* one change, repeated by the publish loop or by a retry of the queued
\* listener, carries the same event_id, and different changes never share
\* one.
C38_EventIdIdentifiesChange ==
    SameChangeSameEventId /\ DifferentChangesDifferentEventIds

====
